---- MODULE Spec2Model ----
(***************************************************************************)
(* State-machine model of the swarm node runtime: the FileManager and the  *)
(* ModelRuntime bounded worker queues (FreeRTOS queue pair + one worker    *)
(* task + one mutex each).                                                 *)
(*                                                                         *)
(* A behaviour exercises one manager object: `instance` names the object   *)
(* the program constructed.  The two classes share no state (ModelRuntime  *)
(* never calls FileManager), so a program holding both is an interleaving  *)
(* of the behaviours checked here.  The members the two classes declare    *)
(* alike (requestQueue, responseQueue, the mutex, the task's locals) are   *)
(* held in one set of variables; each class has its own actions.           *)
(***************************************************************************)
EXTENDS Integers, Sequences, FiniteSets, TLC

VARIABLES
    instance,         \* which manager object was constructed
    requestQueue,     \* QueueHandle_t requestQueue: the queued requests, head first
    responseQueue,    \* QueueHandle_t responseQueue
    mutex,            \* fileMutex / modelMutex: "free" or the holding task
    taskPc,           \* where the worker task (fileTask / modelTask) stands
    request,          \* the worker task's local `request`
    response,         \* the worker task's local `response`
    caller,           \* the caller tasks: idle, or blocked inside xQueueSend
    nextRequestId,    \* the next correlation id the callers assign
    files,            \* the mounted filesystem: filename -> contents or NoFile
    io,               \* what the device did in the last file handler
    loadedModels,     \* std::map<std::string, ModelContext> loadedModels
    context,          \* handleModelLoad's local `ModelContext context`, while in scope
    modelIt,          \* handleInference's local `modelIt`, while in scope
    heapArenas,       \* the tensor arenas allocated with new[] and not deleted
    storage,          \* the model ids the storage system resolves
    engine,           \* what the last model handler asked of the interpreter
    handlersActive,   \* handler bodies entered and not yet left
    accepted,         \* correlation ids in the order the request queue took them
    produced,         \* correlation ids in the order the response queue took them
    lastWrite,        \* filename -> bytes of the latest WRITE if it reported success
    lastHandled,      \* the model request handled last, with its outcome
    loadedOnce,       \* the model ids some LOAD has reported success for
    health,           \* model id -> "ok" | "error" | "unloaded" (recovery progress)
    node_id,          \* uint8_t node_id[NODE_ID_LENGTH] of the SwarmIntelligenceNode
    peers,            \* SwarmPeer peers[MAX_PEERS] of the SwarmIntelligenceNode
    bootEmpty,        \* whether no slot of peers was active when the node was created
    nodePc,           \* where app_main stands
    clock,            \* esp_timer_get_time(), counted in beacon intervals
    recvCb,           \* whether esp_now_register_recv_cb has registered the callback
    calls,            \* the executions of the receive callback in progress
    framesReceived,   \* frames ESP-NOW has handed to the receive callback
    lastFrame,        \* the arguments of the latest call of the receive callback
    lastCall,         \* the latest finished call of processBeacon, with its outcome
    lastBeacon,       \* what the latest call of sendBeacon did
    pollTimedOut,     \* whether a getResponse gave up with the last request outstanding
    requestBudget,    \* the requests the callers submit in this behaviour
    arrivalOrder,     \* the distinct sender ids of the beacons received, in order
    kernel            \* SystemKernel::init: where it stands and what its calls returned

vars == <<instance, requestQueue, responseQueue, mutex, taskPc, request, response,
          caller, nextRequestId, files, io, loadedModels, context, modelIt, heapArenas,
          storage, engine, handlersActive, accepted, produced, lastWrite,
          lastHandled, loadedOnce, health, node_id, peers, bootEmpty, nodePc, clock, recvCb, calls,
          framesReceived, lastFrame, lastCall, lastBeacon, pollTimedOut,
          requestBudget, arrivalOrder, kernel>>

fileVars == <<files, io, lastWrite>>
modelVars == <<loadedModels, context, modelIt, heapArenas, storage, engine,
               lastHandled, loadedOnce, health>>
nodeVars == <<node_id, peers, bootEmpty, nodePc, clock, recvCb, calls, framesReceived, lastFrame,
              lastCall, lastBeacon, arrivalOrder>>
managerVars == <<requestQueue, responseQueue, mutex, taskPc, request, response, caller,
                 nextRequestId, handlersActive, accepted, produced, fileVars,
                 modelVars, pollTimedOut, requestBudget>>

----------------------------------------------------------------------------
(* Bounds of the check *)

\* requests the callers submit to a FileManager / a ModelRuntime in one behaviour
MaxFileRequests == 2
MaxModelRequests == 3
\* the queueSize handed to the constructors (the source's defaults are 10 and 5)
fileQueueSize == 1
modelQueueSize == 2

\* the capacity xQueueCreate gave both queues of the constructed object
queueSize == IF instance = "FileManager" THEN fileQueueSize ELSE modelQueueSize
MaxRequests == requestBudget

Callers == {"t1", "t2"}
Filenames == {"a.bin", "b.bin"}
Blobs == {<<7>>, <<1, 2>>}
ModelIds == {"m0", "m1"}
\* the model files the storage system holds, when one is bound
StoredModels == {"m0"}
\* the input buffers callers hand to requestInference: one of the input tensor's
\* size and a shorter one
Inputs == {<<3, 4>>, <<5>>}
\* interpreter->input(0)->bytes of the stored model
InputTensorBytes == 2
\* the bytes inference leaves in the output tensor
OutputTensor == <<9>>

\* a pointer is the empty tuple (nullptr) or the one-tuple of the buffer it owns
NULL == <<>>
Buffer(bytes) == <<bytes>>
Bytes(pointer) == pointer[1]

\* a name of the filesystem holds no file, or a file with its contents
NoFile == <<>>
File(content) == <<content>>
Content(file) == file[1]

\* lastWrite when the file's latest WRITE failed or none was handled
Unknown == <<>>

\* a caller task outside any blocking call
Idle == [pc |-> "idle"]

\* the requestId a not yet assigned local holds
NoId == 0

\* the SystemKernel of a program that does not call SystemKernel::init
NoKernel == [pc |-> "none"]

\* the address esp_read_mac(node_id, ESP_MAC_WIFI_STA) yields on this device, and
\* node_id before the constructor ran
StationMac == "N"
NoMac == <<>>

----------------------------------------------------------------------------
(* FreeRTOS primitives, as the two classes use them *)

\* mutant of QueueHasRoom: a send that never waits for room
QueueHasRoom_Never_Full(queue) == TRUE

\* xQueueSend(queue, &item, portMAX_DELAY): possible once the queue has room;
\* until then the calling task stays blocked
QueueHasRoom(queue) == Len(queue) < queueSize

\* the queue after xQueueSend copied item to its back
QueueSent(queue, item) == Append(queue, item)

\* xQueueReceive(queue, &item, portMAX_DELAY): possible once an item is queued
QueueHasItem(queue) == Len(queue) > 0

\* the item xQueueReceive copies out, and the queue it leaves
QueueFront(queue) == Head(queue)
QueueReceived(queue) == Tail(queue)

\* the characters a read of request.filename / request.modelId yields in the
\* worker.  FileRequest and ModelRequest hold a std::string; xQueueSend and
\* xQueueReceive copy the struct byte for byte, so the worker's copy points at the
\* characters owned by the submit call's local `request`, which is destroyed when
\* the call returns.  The read yields whatever that memory holds by then: the
\* submitted characters or any others.
StringRead(submitted, alphabet) == alphabet

----------------------------------------------------------------------------
(* FileManager *)

FileTask == "FileTask"

\* FileManager::requestRead up to its xQueueSend
requestRead(c, filename) ==
    /\ instance = "FileManager"
    /\ caller[c].pc = "idle"
    /\ nextRequestId <= MaxRequests
    /\ caller' = [caller EXCEPT ![c] =
           [pc |-> "xQueueSend",
            request |-> [operation |-> "READ", filename |-> filename, data |-> NULL,
                         length |-> 0, requestId |-> nextRequestId]]]
    /\ nextRequestId' = nextRequestId + 1
    /\ UNCHANGED <<instance, requestQueue, responseQueue, mutex, taskPc, request,
                   response, accepted, produced, handlersActive, fileVars, modelVars,
                   nodeVars, kernel, pollTimedOut,
                   requestBudget>>

\* FileManager::requestWrite up to its xQueueSend
requestWrite(c, filename, data) ==
    /\ instance = "FileManager"
    /\ caller[c].pc = "idle"
    /\ nextRequestId <= MaxRequests
    /\ caller' = [caller EXCEPT ![c] =
           [pc |-> "xQueueSend",
            request |-> [operation |-> "WRITE", filename |-> filename,
                         data |-> Buffer(data), length |-> Len(data), requestId |-> nextRequestId]]]
    /\ nextRequestId' = nextRequestId + 1
    /\ UNCHANGED <<instance, requestQueue, responseQueue, mutex, taskPc, request,
                   response, accepted, produced, handlersActive, fileVars, modelVars,
                   nodeVars, kernel, pollTimedOut,
                   requestBudget>>

\* the xQueueSend of a submit call completes: the request is queued and the call
\* returns true
requestReturn(c) ==
    /\ caller[c].pc = "xQueueSend"
    /\ QueueHasRoom(requestQueue)
    /\ requestQueue' = QueueSent(requestQueue, caller[c].request)
    /\ accepted' = Append(accepted, caller[c].request.requestId)
    /\ caller' = [caller EXCEPT ![c] = Idle]
    /\ UNCHANGED <<instance, responseQueue, mutex, taskPc, request, response,
                   nextRequestId, produced, handlersActive, fileVars, modelVars,
                   nodeVars, kernel, pollTimedOut,
                   requestBudget>>

\* getResponse with the default timeout: returns once a response is queued
getResponse(c) ==
    /\ caller[c].pc = "idle"
    /\ QueueHasItem(responseQueue)
    /\ responseQueue' = QueueReceived(responseQueue)
    /\ UNCHANGED <<instance, requestQueue, mutex, taskPc, request, response, caller,
                   nextRequestId, accepted, produced, handlersActive, fileVars,
                   modelVars, nodeVars, kernel, pollTimedOut,
                   requestBudget>>

\* the request the callers submitted last is accepted and not answered yet
LastOutstanding == Len(accepted) = MaxRequests /\ Len(produced) < MaxRequests

\* mutant of getResponse_TimedOut: a poll that gives up takes the queued requests
\* with it
getResponse_TimedOut_Cancelling(c) ==
    /\ instance \in {"FileManager", "ModelRuntime"}
    /\ caller[c].pc = "idle"
    /\ ~QueueHasItem(responseQueue)
    /\ pollTimedOut' = (pollTimedOut \/ LastOutstanding)
    /\ requestQueue' = <<>>
    /\ UNCHANGED <<instance, responseQueue, mutex, taskPc, request, response, caller,
                   nextRequestId, accepted, produced, handlersActive, fileVars,
                   modelVars, nodeVars, kernel, requestBudget>>

\* getResponse with a finite timeout that runs out: xQueueReceive found the
\* response queue empty for the whole wait and returns pdFALSE, so getResponse
\* returns false and `response` is not written
getResponse_TimedOut(c) ==
    /\ instance \in {"FileManager", "ModelRuntime"}
    /\ caller[c].pc = "idle"
    /\ ~QueueHasItem(responseQueue)
    /\ pollTimedOut' = (pollTimedOut \/ LastOutstanding)
    /\ UNCHANGED <<instance, requestQueue, responseQueue, mutex, taskPc, request,
                   response, caller, nextRequestId, accepted, produced,
                   handlersActive, fileVars, modelVars, nodeVars, kernel, requestBudget>>

\* handleRead's response: fopen(rb), size by fseek/ftell, fread into a new buffer
handleRead(req, fs, opened, nread) ==
    IF fs[req.filename] = NoFile \/ ~opened
    THEN [success |-> FALSE, message |-> "Failed to open file", data |-> NULL,
          length |-> 0, requestId |-> req.requestId]
    ELSE LET size == Len(Content(fs[req.filename]))
         IN [success |-> (nread = size),
             message |-> IF nread = size THEN "Success" ELSE "Read error",
             data |-> Buffer(SubSeq(Content(fs[req.filename]), 1, nread)),
             length |-> nread,
             requestId |-> req.requestId]

\* handleWrite's response: fopen(wb), fwrite, fclose
handleWrite(req, opened, written) ==
    IF ~opened
    THEN [success |-> FALSE, message |-> "Failed to create file", data |-> NULL,
          length |-> 0, requestId |-> req.requestId]
    ELSE [success |-> (written = req.length),
          message |-> IF written = req.length THEN "Success" ELSE "Write error",
          data |-> NULL,
          length |-> written,
          requestId |-> req.requestId]

\* the filesystem after handleWrite: fopen(wb) creates or truncates the file and
\* fwrite leaves the bytes it persisted
handleWriteFiles(req, fs, opened, written) ==
    IF ~opened THEN fs
    ELSE [fs EXCEPT ![req.filename] = File(SubSeq(Bytes(req.data), 1, written))]

\* the operation kinds the enums declare and the ones the worker's switch has a
\* case for
FileOp == {"READ", "WRITE", "DELETE", "LIST", "STATUS"}
ModelOp == {"LOAD", "RUN", "UNLOAD", "STATUS"}
SwitchCases == {"READ", "WRITE", "LOAD", "RUN", "UNLOAD"}

\* the worker's local `response` after an iteration that assigned nothing to it:
\* what the previous iteration left, or, in the first iteration, whatever the
\* uninitialised scalars of the local hold
NotAssigned(resp) ==
    IF produced # <<>> THEN {resp}
    ELSE {[resp EXCEPT !.requestId = k, !.success = s] :
              k \in 0..MaxRequests, s \in BOOLEAN}

\* fileTask: xQueueReceive(requestQueue, &request, portMAX_DELAY)
fileTask_Receive ==
    /\ instance = "FileManager"
    /\ taskPc = "receive"
    /\ QueueHasItem(requestQueue)
    /\ request' = QueueFront(requestQueue)
    /\ requestQueue' = QueueReceived(requestQueue)
    /\ taskPc' = "take"
    /\ UNCHANGED <<instance, responseQueue, mutex, response, caller, nextRequestId,
                   accepted, produced, handlersActive, fileVars, modelVars,
                   nodeVars, kernel, pollTimedOut,
                   requestBudget>>

\* fileTask: xSemaphoreTake(fileMutex, portMAX_DELAY)
fileTask_Take ==
    /\ instance = "FileManager"
    /\ taskPc = "take"
    /\ mutex = "free"
    /\ mutex' = FileTask
    /\ taskPc' = "dispatch"
    /\ UNCHANGED <<instance, requestQueue, responseQueue, request, response, caller,
                   nextRequestId, accepted, produced, handlersActive, fileVars,
                   modelVars, nodeVars, kernel, pollTimedOut,
                   requestBudget>>

\* fileTask: the switch enters handleRead or handleWrite, or falls through for a
\* kind it has no case for
fileTask_Dispatch ==
    /\ instance = "FileManager"
    /\ taskPc = "dispatch"
    /\ handlersActive' = handlersActive + 1
    /\ taskPc' = "handler"
    /\ UNCHANGED <<instance, requestQueue, responseQueue, mutex, request, response,
                   caller, nextRequestId, accepted, produced, fileVars, modelVars,
                   nodeVars, kernel, pollTimedOut,
                   requestBudget>>

\* the handler runs to its return; the device decides whether the open succeeds
\* and how many bytes it moves, and the handler's one read of request.filename
\* (in its fopen) yields filename.  For a kind the switch has no case for no
\* handler runs and the local `response` is not assigned
fileTask_Handle ==
    /\ instance = "FileManager"
    /\ taskPc = "handler"
    /\ \E opened \in BOOLEAN, filename \in StringRead(request.filename, Filenames) :
         LET req == [request EXCEPT !.filename = filename]
         IN IF req.operation = "READ"
            THEN LET exists == files[filename] # NoFile
                     size == IF exists THEN Len(Content(files[filename])) ELSE 0
                 IN \E nread \in 0..size :
                      /\ (~(exists /\ opened)) => nread = 0
                      /\ (~exists) => opened
                      /\ response' = handleRead(req, files, opened, nread)
                      /\ io' = [opened |-> exists /\ opened,
                                short |-> exists /\ opened /\ nread < size]
                      /\ UNCHANGED <<files, lastWrite>>
            ELSE IF req.operation = "WRITE"
            THEN \E written \in 0..req.length :
                      /\ (~opened) => written = 0
                      /\ response' = handleWrite(req, opened, written)
                      /\ files' = handleWriteFiles(req, files, opened, written)
                      /\ io' = [opened |-> opened,
                                short |-> opened /\ written < req.length]
                      /\ lastWrite' = [lastWrite EXCEPT ![request.filename] =
                             IF response'.success THEN request.data ELSE Unknown]
            ELSE /\ opened /\ filename = request.filename
                 /\ response' \in NotAssigned(response)
                 /\ UNCHANGED <<files, io, lastWrite>>
    /\ handlersActive' = handlersActive - 1
    /\ taskPc' = "give"
    /\ UNCHANGED <<instance, requestQueue, responseQueue, mutex, request, caller,
                   nextRequestId, accepted, produced, modelVars, nodeVars, kernel, pollTimedOut,
                   requestBudget>>

\* mutant of fileTask_Give: the mutex is given back only after a handler that
\* succeeded
fileTask_Give_OnSuccess ==
    /\ instance = "FileManager"
    /\ taskPc = "give"
    /\ mutex' = IF response.success THEN "free" ELSE mutex
    /\ taskPc' = "send"
    /\ UNCHANGED <<instance, requestQueue, responseQueue, request, response, caller,
                   nextRequestId, accepted, produced, handlersActive, fileVars,
                   modelVars, nodeVars, kernel, pollTimedOut,
                   requestBudget>>

\* fileTask: xSemaphoreGive(fileMutex)
fileTask_Give ==
    /\ instance = "FileManager"
    /\ taskPc = "give"
    /\ mutex' = "free"
    /\ taskPc' = "send"
    /\ UNCHANGED <<instance, requestQueue, responseQueue, request, response, caller,
                   nextRequestId, accepted, produced, handlersActive, fileVars,
                   modelVars, nodeVars, kernel, pollTimedOut,
                   requestBudget>>

\* fileTask: xQueueSend(responseQueue, &response, portMAX_DELAY)
fileTask_Send ==
    /\ instance = "FileManager"
    /\ taskPc = "send"
    /\ QueueHasRoom(responseQueue)
    /\ responseQueue' = QueueSent(responseQueue, response)
    /\ produced' = Append(produced, response.requestId)
    /\ taskPc' = "receive"
    /\ UNCHANGED <<instance, requestQueue, mutex, request, response, caller,
                   nextRequestId, accepted, handlersActive, fileVars, modelVars,
                   nodeVars, kernel, pollTimedOut,
                   requestBudget>>

FileTaskNext ==
    \/ fileTask_Receive
    \/ fileTask_Take
    \/ fileTask_Dispatch
    \/ fileTask_Handle
    \/ fileTask_Give
    \/ fileTask_Send

----------------------------------------------------------------------------
(* ModelRuntime *)

ModelTask == "ModelTask"

\* context.tensorArenaSize = 32 * 1024
TensorArenaSize == 32768

\* no interpreter call was made and no byte copied into the input tensor
NoEngineCall == [allocate |-> FALSE, copied |-> 0, invoke |-> FALSE]

\* loadedModels.find(modelId) != loadedModels.end()
Found(models, modelId) == modelId \in DOMAIN models

\* the iterator loadedModels.find(modelId) returns: End is loadedModels.end()
End == <<>>
Find(models, modelId) == IF Found(models, modelId) THEN <<modelId>> ELSE End

\* std::map erase / insert-or-assign
MapErase(models, modelId) == [m \in (DOMAIN models) \ {modelId} |-> models[m]]
MapAssign(models, modelId, ctx) ==
    [m \in (DOMAIN models) \cup {modelId} |-> IF m = modelId THEN ctx ELSE models[m]]

\* ModelRuntime::requestModelLoad up to its xQueueSend
requestModelLoad(c, modelId) ==
    /\ instance = "ModelRuntime"
    /\ caller[c].pc = "idle"
    /\ nextRequestId <= MaxRequests
    /\ caller' = [caller EXCEPT ![c] =
           [pc |-> "xQueueSend",
            request |-> [operation |-> "LOAD", modelId |-> modelId,
                         inputData |-> NULL, inputLength |-> 0,
                         requestId |-> nextRequestId]]]
    /\ nextRequestId' = nextRequestId + 1
    /\ UNCHANGED <<instance, requestQueue, responseQueue, mutex, taskPc, request,
                   response, accepted, produced, handlersActive, fileVars, modelVars,
                   nodeVars, kernel, pollTimedOut,
                   requestBudget>>

\* ModelRuntime::requestInference up to its xQueueSend
requestInference(c, modelId, inputData) ==
    /\ instance = "ModelRuntime"
    /\ caller[c].pc = "idle"
    /\ nextRequestId <= MaxRequests
    /\ caller' = [caller EXCEPT ![c] =
           [pc |-> "xQueueSend",
            request |-> [operation |-> "RUN", modelId |-> modelId,
                         inputData |-> Buffer(inputData),
                         inputLength |-> Len(inputData),
                         requestId |-> nextRequestId]]]
    /\ nextRequestId' = nextRequestId + 1
    /\ UNCHANGED <<instance, requestQueue, responseQueue, mutex, taskPc, request,
                   response, accepted, produced, handlersActive, fileVars, modelVars,
                   nodeVars, kernel, pollTimedOut,
                   requestBudget>>

\* the submit call of an UNLOAD request, which modelTask dispatches and the class
\* has no public method for
requestModelUnload(c, modelId) ==
    /\ instance = "ModelRuntime"
    /\ caller[c].pc = "idle"
    /\ nextRequestId <= MaxRequests
    /\ caller' = [caller EXCEPT ![c] =
           [pc |-> "xQueueSend",
            request |-> [operation |-> "UNLOAD", modelId |-> modelId,
                         inputData |-> NULL, inputLength |-> 0,
                         requestId |-> nextRequestId]]]
    /\ nextRequestId' = nextRequestId + 1
    /\ UNCHANGED <<instance, requestQueue, responseQueue, mutex, taskPc, request,
                   response, accepted, produced, handlersActive, fileVars, modelVars,
                   nodeVars, kernel, pollTimedOut,
                   requestBudget>>

\* loadModelFromStorage: the source's body is a placeholder that returns nullptr
\* for every id (storage = {}); a bound storage system returns the models it holds
loadModelFromStorage(modelId) ==
    IF modelId \in storage THEN <<modelId>> ELSE NULL

\* handleModelLoad up to `context.state = ModelState::LOADING`: the local context
\* that comes into scope when the lookup of req.modelId finds no entry
handleModelLoadEntry(req, models) ==
    IF Found(models, req.modelId)
    THEN <<>>
    ELSE <<[model |-> NULL, tensorArena |-> NULL, tensorArenaSize |-> 0,
            state |-> "LOADING"]>>

\* handleModelLoad from there to its return.  ctx is the local context (none when
\* the lookup found an entry), model what loadModelFromStorage(request.modelId)
\* returned, key what loadedModels[request.modelId] read, allocated is
\* AllocateTensors() returning kTfLiteOk.  The result holds the response, the
\* table, the heap and the interpreter calls made.
handleModelLoad(req, ctx, model, key, models, heap, allocated) ==
    IF ctx = <<>>
    THEN [response |-> [success |-> TRUE, message |-> "Model already loaded",
                        outputData |-> NULL, outputLength |-> 0,
                        requestId |-> req.requestId, state |-> "READY"],
          loadedModels |-> models, heapArenas |-> heap, engine |-> NoEngineCall]
    ELSE IF model = NULL
    THEN [response |-> [success |-> FALSE, message |-> "Failed to load model file",
                        outputData |-> NULL, outputLength |-> 0,
                        requestId |-> req.requestId, state |-> "ERROR"],
          loadedModels |-> models, heapArenas |-> heap, engine |-> NoEngineCall]
    ELSE IF ~allocated
    THEN \* the throw leaves the arena allocated: context holds it by raw pointer
         [response |-> [success |-> FALSE, message |-> "Failed to allocate tensors",
                        outputData |-> NULL, outputLength |-> 0,
                        requestId |-> req.requestId, state |-> "ERROR"],
          loadedModels |-> models, heapArenas |-> heap \cup {req.requestId},
          engine |-> [allocate |-> TRUE, copied |-> 0, invoke |-> FALSE]]
    ELSE [response |-> [success |-> TRUE, message |-> "Model loaded successfully",
                        outputData |-> NULL, outputLength |-> 0,
                        requestId |-> req.requestId, state |-> "READY"],
          loadedModels |-> MapAssign(models, key,
              [model |-> model, tensorArena |-> <<req.requestId>>,
               tensorArenaSize |-> TensorArenaSize, state |-> "READY"]),
          heapArenas |-> heap \cup {req.requestId},
          engine |-> [allocate |-> TRUE, copied |-> 0, invoke |-> FALSE]]

\* handleInference up to `context.state = ModelState::RUNNING`: the table after
\* the lookup of req.modelId
handleInferenceEntry(req, models) ==
    IF Found(models, req.modelId)
    THEN [models EXCEPT ![req.modelId].state = "RUNNING"]
    ELSE models

\* mutant of handleInference: the catch block also records ModelState::ERROR in
\* the context
handleInference_RecordsError(req, it, models, invoked) ==
    IF it = End
    THEN [response |-> [success |-> FALSE, message |-> "Model not loaded",
                        outputData |-> NULL, outputLength |-> 0,
                        requestId |-> req.requestId, state |-> "UNLOADED"],
          loadedModels |-> models, engine |-> NoEngineCall]
    ELSE IF ~invoked
    THEN [response |-> [success |-> FALSE, message |-> "Inference failed",
                        outputData |-> NULL, outputLength |-> 0,
                        requestId |-> req.requestId, state |-> "ERROR"],
          loadedModels |-> [models EXCEPT ![it[1]].state = "ERROR"],
          engine |-> [allocate |-> FALSE, copied |-> req.inputLength, invoke |-> TRUE]]
    ELSE [response |-> [success |-> TRUE, message |-> "Inference successful",
                        outputData |-> Buffer(OutputTensor),
                        outputLength |-> Len(OutputTensor),
                        requestId |-> req.requestId, state |-> "READY"],
          loadedModels |-> [models EXCEPT ![it[1]].state = "READY"],
          engine |-> [allocate |-> FALSE, copied |-> req.inputLength, invoke |-> TRUE]]

\* handleInference from there to its return.  it is modelIt, invoked is Invoke()
\* returning kTfLiteOk.  The memcpy into the input tensor copies
\* request.inputLength bytes whatever the tensor's size (engine.copied).
handleInference(req, it, models, invoked) ==
    IF it = End
    THEN [response |-> [success |-> FALSE, message |-> "Model not loaded",
                        outputData |-> NULL, outputLength |-> 0,
                        requestId |-> req.requestId, state |-> "UNLOADED"],
          loadedModels |-> models, engine |-> NoEngineCall]
    ELSE IF ~invoked
    THEN \* the catch block builds the response; context.state is left as it is
         [response |-> [success |-> FALSE, message |-> "Inference failed",
                        outputData |-> NULL, outputLength |-> 0,
                        requestId |-> req.requestId, state |-> "ERROR"],
          loadedModels |-> models,
          engine |-> [allocate |-> FALSE, copied |-> req.inputLength, invoke |-> TRUE]]
    ELSE [response |-> [success |-> TRUE, message |-> "Inference successful",
                        outputData |-> Buffer(OutputTensor),
                        outputLength |-> Len(OutputTensor),
                        requestId |-> req.requestId, state |-> "READY"],
          loadedModels |-> [models EXCEPT ![it[1]].state = "READY"],
          engine |-> [allocate |-> FALSE, copied |-> req.inputLength, invoke |-> TRUE]]

\* handleModelUnload, which modelTask calls and the source does not define: the
\* context's arena and engine are released and the table entry removed
handleModelUnload(req, models, heap) ==
    IF ~Found(models, req.modelId)
    THEN [response |-> [success |-> FALSE, message |-> "Model not loaded",
                        outputData |-> NULL, outputLength |-> 0,
                        requestId |-> req.requestId, state |-> "UNLOADED"],
          loadedModels |-> models, heapArenas |-> heap, engine |-> NoEngineCall]
    ELSE [response |-> [success |-> TRUE, message |-> "Model unloaded",
                        outputData |-> NULL, outputLength |-> 0,
                        requestId |-> req.requestId, state |-> "UNLOADED"],
          loadedModels |-> MapErase(models, req.modelId),
          heapArenas |-> heap \ {models[req.modelId].tensorArena[1]},
          engine |-> NoEngineCall]

\* the recovery progress of a model id after a handler returned: an inference or
\* tensor-allocation failure marks it, an UNLOAD and then a successful LOAD clear it
HealthAfter(h, req, resp) ==
    IF resp.message \in {"Inference failed", "Failed to allocate tensors"}
    THEN [h EXCEPT ![req.modelId] = "error"]
    ELSE IF req.operation = "UNLOAD" /\ h[req.modelId] = "error"
    THEN [h EXCEPT ![req.modelId] = "unloaded"]
    ELSE IF req.operation = "LOAD" /\ resp.success /\ h[req.modelId] = "unloaded"
    THEN [h EXCEPT ![req.modelId] = "ok"]
    ELSE h

\* mutant of modelTask_Receive: the newest queued request is taken first
modelTask_Receive_Newest ==
    /\ instance = "ModelRuntime"
    /\ taskPc = "receive"
    /\ QueueHasItem(requestQueue)
    /\ request' = requestQueue[Len(requestQueue)]
    /\ requestQueue' = SubSeq(requestQueue, 1, Len(requestQueue) - 1)
    /\ taskPc' = "take"
    /\ UNCHANGED <<instance, responseQueue, mutex, response, caller, nextRequestId,
                   accepted, produced, handlersActive, fileVars, modelVars,
                   nodeVars, kernel, pollTimedOut,
                   requestBudget>>

\* modelTask: xQueueReceive(requestQueue, &request, portMAX_DELAY)
modelTask_Receive ==
    /\ instance = "ModelRuntime"
    /\ taskPc = "receive"
    /\ QueueHasItem(requestQueue)
    /\ request' = QueueFront(requestQueue)
    /\ requestQueue' = QueueReceived(requestQueue)
    /\ taskPc' = "take"
    /\ UNCHANGED <<instance, responseQueue, mutex, response, caller, nextRequestId,
                   accepted, produced, handlersActive, fileVars, modelVars,
                   nodeVars, kernel, pollTimedOut,
                   requestBudget>>

\* modelTask: xSemaphoreTake(modelMutex, portMAX_DELAY)
modelTask_Take ==
    /\ instance = "ModelRuntime"
    /\ taskPc = "take"
    /\ mutex = "free"
    /\ mutex' = ModelTask
    /\ taskPc' = "dispatch"
    /\ UNCHANGED <<instance, requestQueue, responseQueue, request, response, caller,
                   nextRequestId, accepted, produced, handlersActive, fileVars,
                   modelVars, nodeVars, kernel, pollTimedOut,
                   requestBudget>>

\* mutant of modelTask_Dispatch: the handler is started and the task goes on
\* without waiting for it to return
modelTask_Dispatch_Detached ==
    /\ instance = "ModelRuntime"
    /\ taskPc = "dispatch"
    /\ handlersActive' = handlersActive + 1
    /\ \E modelId \in StringRead(request.modelId, ModelIds) :
         LET req == [request EXCEPT !.modelId = modelId]
         IN /\ context' = IF req.operation = "LOAD"
                          THEN handleModelLoadEntry(req, loadedModels)
                          ELSE context
            /\ modelIt' = IF req.operation = "RUN"
                          THEN Find(loadedModels, req.modelId)
                          ELSE modelIt
            /\ loadedModels' = IF req.operation = "RUN"
                               THEN handleInferenceEntry(req, loadedModels)
                               ELSE loadedModels
    /\ taskPc' = "give"
    /\ UNCHANGED <<instance, requestQueue, responseQueue, mutex, request, response,
                   caller, nextRequestId, accepted, produced, fileVars, heapArenas,
                   storage, engine, lastHandled, loadedOnce, health,
                   nodeVars, kernel, pollTimedOut,
                   requestBudget>>

\* modelTask: the switch enters the handler, which runs to its first state
\* change; modelId is what the handler's lookup reads of request.modelId
modelTask_Dispatch ==
    /\ instance = "ModelRuntime"
    /\ taskPc = "dispatch"
    /\ handlersActive' = handlersActive + 1
    /\ \E modelId \in StringRead(request.modelId, ModelIds) :
         LET req == [request EXCEPT !.modelId = modelId]
         IN /\ context' = IF req.operation = "LOAD"
                          THEN handleModelLoadEntry(req, loadedModels)
                          ELSE context
            /\ modelIt' = IF req.operation = "RUN"
                          THEN Find(loadedModels, req.modelId)
                          ELSE modelIt
            /\ loadedModels' = IF req.operation = "RUN"
                               THEN handleInferenceEntry(req, loadedModels)
                               ELSE loadedModels
    /\ taskPc' = "handler"
    /\ UNCHANGED <<instance, requestQueue, responseQueue, mutex, request, response,
                   caller, nextRequestId, accepted, produced, fileVars, heapArenas,
                   storage, engine, lastHandled, loadedOnce, health,
                   nodeVars, kernel, pollTimedOut,
                   requestBudget>>

\* the handler runs to its return; the interpreter decides whether AllocateTensors
\* and Invoke succeed.  storageId and key are what handleModelLoad's later reads
\* of request.modelId yield (its loadModelFromStorage call, its table insertion);
\* key is also what handleModelUnload's lookup reads.
modelTask_Handle ==
    /\ instance = "ModelRuntime"
    /\ taskPc = "handler"
    /\ request.operation \in SwitchCases
    /\ \E ok \in BOOLEAN, storageId \in StringRead(request.modelId, ModelIds),
          key \in StringRead(request.modelId, ModelIds) :
         LET out == CASE request.operation = "LOAD" ->
                            handleModelLoad(request, context,
                                            loadModelFromStorage(storageId), key,
                                            loadedModels, heapArenas, ok)
                      [] request.operation = "RUN" ->
                            handleInference(request, modelIt, loadedModels, ok)
                            @@ [heapArenas |-> heapArenas]
                      [] OTHER ->
                            handleModelUnload([request EXCEPT !.modelId = key],
                                              loadedModels, heapArenas)
         IN /\ (~(out.engine.allocate \/ out.engine.invoke)) => ok
            /\ response' = out.response
            /\ loadedModels' = out.loadedModels
            /\ heapArenas' = out.heapArenas
            /\ engine' = out.engine
            /\ lastHandled' = <<[operation |-> request.operation,
                                 modelId |-> request.modelId,
                                 success |-> out.response.success]>>
            /\ loadedOnce' = IF request.operation = "LOAD" /\ out.response.success
                             THEN loadedOnce \cup {request.modelId}
                             ELSE loadedOnce
            /\ health' = HealthAfter(health, request, out.response)
    /\ context' = <<>>
    /\ modelIt' = End
    /\ handlersActive' = handlersActive - 1
    /\ taskPc' = "give"
    /\ UNCHANGED <<instance, requestQueue, responseQueue, mutex, request, caller,
                   nextRequestId, accepted, produced, fileVars, storage,
                   nodeVars, kernel, pollTimedOut,
                   requestBudget>>

\* modelTask: the switch has no case for request.operation: no handler runs and
\* the local `response` is not assigned
modelTask_NoCase ==
    /\ instance = "ModelRuntime"
    /\ taskPc = "handler"
    /\ request.operation \notin SwitchCases
    /\ response' \in NotAssigned(response)
    /\ handlersActive' = handlersActive - 1
    /\ taskPc' = "give"
    /\ UNCHANGED <<instance, requestQueue, responseQueue, mutex, request, caller,
                   nextRequestId, accepted, produced, fileVars, modelVars,
                   nodeVars, kernel, pollTimedOut,
                   requestBudget>>

\* modelTask: xSemaphoreGive(modelMutex)
modelTask_Give ==
    /\ instance = "ModelRuntime"
    /\ taskPc = "give"
    /\ mutex' = "free"
    /\ taskPc' = "send"
    /\ UNCHANGED <<instance, requestQueue, responseQueue, request, response, caller,
                   nextRequestId, accepted, produced, handlersActive, fileVars,
                   modelVars, nodeVars, kernel, pollTimedOut,
                   requestBudget>>

\* mutant of modelTask_Send: a send with no timeout, which gives the response up
\* when the response queue is full
modelTask_Send_NoWait ==
    /\ instance = "ModelRuntime"
    /\ taskPc = "send"
    /\ responseQueue' = IF QueueHasRoom(responseQueue)
                        THEN QueueSent(responseQueue, response)
                        ELSE responseQueue
    /\ produced' = IF QueueHasRoom(responseQueue)
                   THEN Append(produced, response.requestId)
                   ELSE produced
    /\ taskPc' = "receive"
    /\ UNCHANGED <<instance, requestQueue, mutex, request, response, caller,
                   nextRequestId, accepted, handlersActive, fileVars, modelVars,
                   nodeVars, kernel, pollTimedOut,
                   requestBudget>>

\* modelTask: xQueueSend(responseQueue, &response, portMAX_DELAY)
modelTask_Send ==
    /\ instance = "ModelRuntime"
    /\ taskPc = "send"
    /\ QueueHasRoom(responseQueue)
    /\ responseQueue' = QueueSent(responseQueue, response)
    /\ produced' = Append(produced, response.requestId)
    /\ taskPc' = "receive"
    /\ UNCHANGED <<instance, requestQueue, mutex, request, response, caller,
                   nextRequestId, accepted, handlersActive, fileVars, modelVars,
                   nodeVars, kernel, pollTimedOut,
                   requestBudget>>

ModelTaskNext ==
    \/ modelTask_Receive
    \/ modelTask_Take
    \/ modelTask_Dispatch
    \/ modelTask_Handle
    \/ modelTask_Give
    \/ modelTask_Send

----------------------------------------------------------------------------
(* The program *)

\* the locals of the worker task before its first xQueueReceive
InitialRequest(inst) ==
    IF inst = "FileManager"
    THEN [operation |-> "uninitialized", filename |-> "", data |-> NULL,
          length |-> 0, requestId |-> NoId]
    ELSE [operation |-> "uninitialized", modelId |-> "", inputData |-> NULL,
          inputLength |-> 0, requestId |-> NoId]

InitialResponse(inst) ==
    IF inst = "FileManager"
    THEN [success |-> FALSE, message |-> "", data |-> NULL, length |-> 0,
          requestId |-> NoId]
    ELSE [success |-> FALSE, message |-> "", outputData |-> NULL,
          outputLength |-> 0, requestId |-> NoId, state |-> "UNLOADED"]

\* the state after the constructor ran: empty queues, a free mutex, the worker
\* task created and about to block on the request queue
Constructed ==
    /\ instance \in {"FileManager", "ModelRuntime"}
    /\ requestQueue = <<>>
    /\ responseQueue = <<>>
    /\ mutex = "free"
    /\ taskPc = "receive"
    /\ request = InitialRequest(instance)
    /\ response = InitialResponse(instance)
    /\ caller = [c \in Callers |-> Idle]
    /\ nextRequestId = 1
    /\ files = [f \in Filenames |-> NoFile]
    /\ io = [opened |-> FALSE, short |-> FALSE]
    /\ loadedModels = <<>>
    /\ context = <<>>
    /\ modelIt = End
    /\ heapArenas = {}
    /\ storage \in IF instance = "ModelRuntime" THEN {{}, StoredModels} ELSE {{}}
    /\ engine = NoEngineCall
    /\ handlersActive = 0
    /\ accepted = <<>>
    /\ produced = <<>>
    /\ lastWrite = [f \in Filenames |-> Unknown]
    /\ lastHandled = <<>>
    /\ loadedOnce = {}
    /\ health = [m \in ModelIds |-> "ok"]
    /\ node_id = NoMac
    /\ peers = <<>>
    /\ bootEmpty = TRUE
    /\ nodePc = "none"
    /\ clock = 0
    /\ recvCb = FALSE
    /\ calls = <<>>
    /\ framesReceived = 0
    /\ lastFrame = <<>>
    /\ lastCall = <<>>
    /\ lastBeacon = <<>>
    /\ pollTimedOut = FALSE
    /\ arrivalOrder = <<>>
    /\ kernel = NoKernel

\* the constructed object with callers that submit MaxFileRequests or
\* MaxModelRequests requests
Init ==
    /\ Constructed
    /\ requestBudget = IF instance = "FileManager" THEN MaxFileRequests
                                                     ELSE MaxModelRequests

\* the calls the callers of the two classes can make
CallerNext ==
    \/ \E c \in Callers, f \in Filenames : requestRead(c, f)
    \/ \E c \in Callers, f \in Filenames, b \in Blobs : requestWrite(c, f, b)
    \/ \E c \in Callers, m \in ModelIds : requestModelLoad(c, m)
    \/ \E c \in Callers, m \in ModelIds, i \in Inputs : requestInference(c, m, i)
    \/ \E c \in Callers : requestReturn(c)
    \/ \E c \in Callers : getResponse(c)

Next ==
    \/ CallerNext
    \/ \E c \in Callers, m \in ModelIds : requestModelUnload(c, m)
    \/ FileTaskNext
    \/ ModelTaskNext

Spec == Init /\ [][Next]_vars

\* the program with the source's loadModelFromStorage, which resolves no model,
\* and with the submit calls the classes declare
InitAsBuilt == Init /\ storage = {}

NextAsBuilt ==
    \/ CallerNext
    \/ FileTaskNext
    \/ ModelTaskNext

SpecAsBuilt == InitAsBuilt /\ [][NextAsBuilt]_vars

\* the program as built, with the worker task scheduled fairly and queued
\* responses polled
FairAsBuilt ==
    /\ SpecAsBuilt
    /\ WF_vars(FileTaskNext)
    /\ WF_vars(ModelTaskNext)
    /\ WF_vars(\E c \in Callers : getResponse(c))

\* the model runtime as built over a storage system that holds StoredModels,
\* driven by one caller task
InitStored ==
    /\ Init
    /\ instance = "ModelRuntime"
    /\ storage = StoredModels

NextStored ==
    \/ \E m \in ModelIds : requestModelLoad("t1", m)
    \/ \E m \in ModelIds, i \in Inputs : requestInference("t1", m, i)
    \/ requestReturn("t1")
    \/ getResponse("t1")
    \/ ModelTaskNext

SpecStored == InitStored /\ [][NextStored]_vars

\* the program as built with callers that submit one request more than the two
\* queues and the worker task can hold, all of them READ or LOAD requests
BurstRequests == 2 * queueSize + 2

InitBurst ==
    /\ Constructed
    /\ storage = {}
    /\ requestBudget = BurstRequests

NextBurst ==
    \/ \E c \in Callers, f \in Filenames : requestRead(c, f)
    \/ \E c \in Callers, m \in ModelIds : requestModelLoad(c, m)
    \/ \E c \in Callers : requestReturn(c)
    \/ \E c \in Callers : getResponse(c)
    \/ FileTaskNext
    \/ ModelTaskNext

SpecBurst == InitBurst /\ [][NextBurst]_vars

\* the program as built with one caller task that submits n requests back to
\* back, for some n up to BurstRequests, and polls only after its last submit
\* call has returned, the worker task scheduled fairly
InitBackToBack ==
    /\ Constructed
    /\ storage = {}
    /\ requestBudget \in 1..BurstRequests

NextBackToBack ==
    \/ \E f \in Filenames : requestRead("t1", f)
    \/ \E f \in Filenames, b \in Blobs : requestWrite("t1", f, b)
    \/ \E m \in ModelIds : requestModelLoad("t1", m)
    \/ \E m \in ModelIds, i \in Inputs : requestInference("t1", m, i)
    \/ requestReturn("t1")
    \/ (nextRequestId > MaxRequests /\ getResponse("t1"))
    \/ FileTaskNext
    \/ ModelTaskNext

SpecBackToBack == InitBackToBack /\ [][NextBackToBack]_vars

FairBackToBack ==
    /\ SpecBackToBack
    /\ WF_vars(FileTaskNext)
    /\ WF_vars(ModelTaskNext)
    /\ WF_vars(requestReturn("t1"))
    /\ WF_vars(nextRequestId > MaxRequests /\ getResponse("t1"))

\* the requests submit calls got accepted whose responses no getResponse has
\* taken yet
Outstanding == Len(accepted) - (Len(produced) - Len(responseQueue))

\* the program as built with one caller task that submits a request only when
\* it has polled the response of its previous one, the worker task scheduled
\* fairly
NextOneAtATime ==
    \/ (Outstanding = 0 /\ \E f \in Filenames : requestRead("t1", f))
    \/ (Outstanding = 0 /\ \E f \in Filenames, b \in Blobs : requestWrite("t1", f, b))
    \/ (Outstanding = 0 /\ \E m \in ModelIds : requestModelLoad("t1", m))
    \/ (Outstanding = 0 /\ \E m \in ModelIds, i \in Inputs : requestInference("t1", m, i))
    \/ requestReturn("t1")
    \/ getResponse("t1")
    \/ FileTaskNext
    \/ ModelTaskNext

SpecOneAtATime == InitAsBuilt /\ [][NextOneAtATime]_vars

FairOneAtATime ==
    /\ SpecOneAtATime
    /\ WF_vars(FileTaskNext)
    /\ WF_vars(ModelTaskNext)
    /\ WF_vars(requestReturn("t1"))
    /\ WF_vars(getResponse("t1"))

\* the payload pointer of a request (FileRequest::data, ModelRequest::inputData)
Payload(req) == IF instance = "FileManager" THEN req.data ELSE req.inputData
WithPayload(req, pointer) ==
    IF instance = "FileManager"
    THEN [req EXCEPT !.data = pointer]
    ELSE [req EXCEPT !.inputData = pointer]

\* what a payload pointer points at once the caller has written to its buffer
\* again (or freed it and the allocator reused it)
Overwritten(pointer) ==
    IF pointer = NULL THEN NULL ELSE Buffer([i \in DOMAIN Bytes(pointer) |-> 0])

\* the worker's local `request` holds a request whose handler has not returned
WorkerHolds == taskPc \in {"take", "dispatch", "handler"}

\* the caller of requestWrite / requestInference uses its buffer again after the
\* call returned.  The request carries the caller's pointer (.data = data,
\* .inputData = inputData), not a copy of the bytes, so the queued request and
\* the worker's copy of it see what the caller writes
callerOverwrites(k) ==
    /\ instance \in {"FileManager", "ModelRuntime"}
    /\ \/ \E i \in DOMAIN requestQueue :
             /\ requestQueue[i].requestId = k
             /\ Payload(requestQueue[i]) \notin {NULL, Overwritten(Payload(requestQueue[i]))}
       \/ /\ WorkerHolds
          /\ request.requestId = k
          /\ Payload(request) \notin {NULL, Overwritten(Payload(request))}
    /\ requestQueue' =
           [i \in DOMAIN requestQueue |->
               IF requestQueue[i].requestId = k
               THEN WithPayload(requestQueue[i], Overwritten(Payload(requestQueue[i])))
               ELSE requestQueue[i]]
    /\ request' = IF WorkerHolds /\ request.requestId = k
                  THEN WithPayload(request, Overwritten(Payload(request)))
                  ELSE request
    /\ UNCHANGED <<instance, responseQueue, mutex, taskPc, response, caller,
                   nextRequestId, accepted, produced, handlersActive, fileVars,
                   modelVars, nodeVars, kernel, pollTimedOut,
                   requestBudget>>

\* the program as built with callers that reuse their buffers
NextShared ==
    \/ NextAsBuilt
    \/ \E k \in 1..MaxRequests : callerOverwrites(k)

SpecShared == InitAsBuilt /\ [][NextShared]_vars

\* submit of a request of a kind the enums declare and the classes have no
\* submit method for (FileOp DELETE, LIST, STATUS; ModelOp STATUS), built as
\* requestRead and requestModelLoad build theirs
submit(c, operation) ==
    /\ instance \in {"FileManager", "ModelRuntime"}
    /\ operation \in (IF instance = "FileManager" THEN FileOp ELSE ModelOp) \ SwitchCases
    /\ caller[c].pc = "idle"
    /\ nextRequestId <= MaxRequests
    /\ caller' = [caller EXCEPT ![c] =
           [pc |-> "xQueueSend",
            request |->
                IF instance = "FileManager"
                THEN [operation |-> operation, filename |-> "a.bin", data |-> NULL,
                      length |-> 0, requestId |-> nextRequestId]
                ELSE [operation |-> operation, modelId |-> "m0", inputData |-> NULL,
                      inputLength |-> 0, requestId |-> nextRequestId]]]
    /\ nextRequestId' = nextRequestId + 1
    /\ UNCHANGED <<instance, requestQueue, responseQueue, mutex, taskPc, request,
                   response, accepted, produced, handlersActive, fileVars, modelVars,
                   nodeVars, kernel, pollTimedOut,
                   requestBudget>>

\* the program as built with requests of every declared kind
NextAnyOp ==
    \/ NextAsBuilt
    \/ \E c \in Callers, operation \in FileOp \cup ModelOp : submit(c, operation)
    \/ modelTask_NoCase

SpecAnyOp == InitAsBuilt /\ [][NextAnyOp]_vars

\* the program as built with callers that also poll with a finite timeout
NextPolled ==
    \/ NextAsBuilt
    \/ \E c \in Callers : getResponse_TimedOut(c)

SpecPolled == InitAsBuilt /\ [][NextPolled]_vars

\* ... scheduled fairly: the worker runs, a submit call blocked in xQueueSend
\* returns once the request queue has room, and queued responses are polled
FairPolled ==
    /\ SpecPolled
    /\ WF_vars(FileTaskNext)
    /\ WF_vars(ModelTaskNext)
    /\ WF_vars(\E c \in Callers : requestReturn(c))
    /\ WF_vars(\E c \in Callers : getResponse(c))

----------------------------------------------------------------------------
(* SwarmIntelligenceNode (esp32-swarm-firmware.c) *)

\* #define MAX_PEERS: the slots of the peer table (20 in the source)
MAX_PEERS == 2
\* frames ESP-NOW hands to the receive callback in one behaviour
MaxFrames == 3
\* sizeof(BeaconPacket): 6 bytes of sender_id, 2 of padding, 32 floats, a uint32_t
BeaconPacketSize == 140

\* the MAC addresses of the nodes in radio range
NodeIds == {"A", "B", "C", "D"}
\* the indices of peers[]
Slots == 1..MAX_PEERS

\* the BeaconPacket values peers send: per sender two capability vectors, each
\* with its timestamp
Beacons ==
    {[sender_id |-> n, capabilities |-> <<p>>, timestamp |-> 10 * p] :
        n \in NodeIds, p \in {1, 2}}

\* what the radio delivers: the payload, its length, and the signal strength the
\* radio measured.  A frame is a whole BeaconPacket or one a byte short
Frames ==
    [len : {BeaconPacketSize}, data : Beacons, rssi : {-40}]
    \cup [len : {BeaconPacketSize - 1}, rssi : {-40},
          data : {b \in Beacons : b.timestamp = 10}]

\* what the storage of peers[] can hold when the node is created.  swarmNode is a
\* local of app_main and the constructor assigns no member of peers, so every
\* slot starts with the bytes the stack held: mac_address and is_active, which
\* processBeacon reads, take any value (a peer's address or other bytes); rssi,
\* last_seen and capabilities, which no code reads, are written as 0 and <<0>>,
\* values no received beacon carries
BootSlots ==
    [mac_address : NodeIds \cup {"a5"}, rssi : {0}, last_seen : {0},
     is_active : BOOLEAN, capabilities : {<<0>>}]

\* mutant of LengthMatches: a callback that hands every frame on
LengthMatches_Any(len) == TRUE

\* if (len == sizeof(BeaconPacket))
LengthMatches(len) == len = BeaconPacketSize

\* mutant of WifiTaskFree: a transport that enters the callback again while an
\* earlier call is still running
WifiTaskFree_Reentrant == TRUE

\* ESP-NOW calls the registered receive callback from the Wi-Fi task, one frame
\* after the other: a call starts when the previous one has returned
WifiTaskFree == calls = <<>>

\* mutant of MatchingSlots: a scan that finds no slot
MatchingSlots_None(table, id) == {}

\* the slots the first loop's memcmp accepts for a sender id
MatchingSlots(table, id) == {i \in DOMAIN table : table[i].mac_address = id}

\* mutant of InactiveSlots: a full table offers its first slot again
InactiveSlots_Evicting(table) ==
    IF \A i \in DOMAIN table : table[i].is_active
    THEN {1}
    ELSE {i \in DOMAIN table : ~table[i].is_active}

\* the slots the second loop's test !peers[i].is_active accepts
InactiveSlots(table) == {i \in DOMAIN table : ~table[i].is_active}

\* the slot a loop `for (i = 0; i < MAX_PEERS; i++) if (...) { ...; break; }`
\* acts on: the lowest index of those its test accepts
First(slots) == CHOOSE i \in slots : \A j \in slots : i <= j

\* the body of the first loop: the assignments to the matching slot
Updated(slot, beacon) ==
    [slot EXCEPT !.last_seen = beacon.timestamp,
                 !.capabilities = beacon.capabilities,
                 !.is_active = TRUE]

\* mutant of Populated: the slot is filled and left inactive
Populated_NotActivated(slot, beacon) ==
    [slot EXCEPT !.mac_address = beacon.sender_id,
                 !.last_seen = beacon.timestamp,
                 !.capabilities = beacon.capabilities]

\* the body of the second loop: the assignments to the first inactive slot
Populated(slot, beacon) ==
    [slot EXCEPT !.mac_address = beacon.sender_id,
                 !.last_seen = beacon.timestamp,
                 !.capabilities = beacon.capabilities,
                 !.is_active = TRUE]

\* a sequence without its k-th element
Removed(seq, k) == [i \in 1..(Len(seq) - 1) |-> IF i < k THEN seq[i] ELSE seq[i + 1]]

\* app_main: constructs swarmNode and enters run().  The constructor reads the
\* station MAC into node_id, then registers the receive callback (initESPNOW)
\* only if initializeTFLiteModel succeeded;
\* app_main calls run() either way
app_main ==
    /\ instance = "SwarmIntelligenceNode"
    /\ nodePc = "app_main"
    /\ node_id' = StationMac
    /\ \E allocated \in BOOLEAN : recvCb' = allocated
    /\ nodePc' = "run"
    /\ UNCHANGED <<instance, managerVars, kernel, peers, bootEmpty, clock, calls,
                   framesReceived, lastFrame, lastCall, lastBeacon, arrivalOrder>>

\* whether an earlier beacon of this sender reached processBeacon
Heard(id) == \E i \in DOMAIN arrivalOrder : arrivalOrder[i] = id

\* what a finished call of processBeacon did: it updated the matching slot,
\* populated an inactive slot, or dropped the beacon (slot 0)
Finished(call, outcome, slot) ==
    [beacon |-> call.beacon, repeat |-> call.repeat, outcome |-> outcome,
     slot |-> slot]

\* the lambda registered with esp_now_register_recv_cb, entered for one frame: a
\* frame of the size of a BeaconPacket is copied into `beacon` and handed to
\* processBeacon, any other frame is left alone
recv_cb(frame) ==
    /\ instance = "SwarmIntelligenceNode"
    /\ recvCb
    /\ WifiTaskFree
    /\ framesReceived < MaxFrames
    /\ framesReceived' = framesReceived + 1
    /\ lastFrame' = frame
    /\ IF LengthMatches(frame.len)
       THEN /\ calls' = Append(calls, [beacon |-> frame.data, pc |-> "scan",
                                       repeat |-> Heard(frame.data.sender_id)])
            /\ arrivalOrder' = IF Heard(frame.data.sender_id)
                               THEN arrivalOrder
                               ELSE Append(arrivalOrder, frame.data.sender_id)
       ELSE UNCHANGED <<calls, arrivalOrder>>
    /\ UNCHANGED <<instance, managerVars, kernel, node_id, clock,
                   peers, bootEmpty, nodePc, recvCb, lastCall,
                   lastBeacon>>

\* mutant of processBeacon_Scan: a first loop without its break, which updates
\* every slot whose mac_address equals the sender id
processBeacon_Scan_NoBreak(k) ==
    /\ instance = "SwarmIntelligenceNode"
    /\ k \in DOMAIN calls
    /\ calls[k].pc = "scan"
    /\ LET beacon == calls[k].beacon
           found == MatchingSlots(peers, beacon.sender_id)
       IN  IF found # {}
           THEN /\ peers' = [i \in DOMAIN peers |->
                                IF i \in found THEN Updated(peers[i], beacon)
                                               ELSE peers[i]]
                /\ calls' = Removed(calls, k)
                /\ lastCall' = Finished(calls[k], "updated", First(found))
           ELSE /\ peers' = peers
                /\ calls' = [calls EXCEPT ![k].pc = "insert"]
                /\ lastCall' = lastCall
    /\ UNCHANGED <<instance, managerVars, kernel, node_id, clock,
                   bootEmpty, nodePc, recvCb, framesReceived,
                   lastFrame, lastBeacon, arrivalOrder>>

\* processBeacon, first loop: the first slot whose mac_address equals the
\* sender id is updated and the call returns; with no such slot `found` stays
\* false and the second loop follows
processBeacon_Scan(k) ==
    /\ instance = "SwarmIntelligenceNode"
    /\ k \in DOMAIN calls
    /\ calls[k].pc = "scan"
    /\ LET beacon == calls[k].beacon
           found == MatchingSlots(peers, beacon.sender_id)
       IN  IF found # {}
           THEN /\ peers' = [peers EXCEPT ![First(found)] = Updated(@, beacon)]
                /\ calls' = Removed(calls, k)
                /\ lastCall' = Finished(calls[k], "updated", First(found))
           ELSE /\ peers' = peers
                /\ calls' = [calls EXCEPT ![k].pc = "insert"]
                /\ lastCall' = lastCall
    /\ UNCHANGED <<instance, managerVars, kernel, node_id, clock,
                   bootEmpty, nodePc, recvCb, framesReceived,
                   lastFrame, lastBeacon, arrivalOrder>>

\* processBeacon, second loop (found == false): the first inactive slot takes
\* the beacon; with every slot active the beacon is dropped
processBeacon_Insert(k) ==
    /\ instance = "SwarmIntelligenceNode"
    /\ k \in DOMAIN calls
    /\ calls[k].pc = "insert"
    /\ LET beacon == calls[k].beacon
           inactive == InactiveSlots(peers)
       IN  IF inactive # {}
           THEN /\ peers' = [peers EXCEPT ![First(inactive)] = Populated(@, beacon)]
                /\ lastCall' = Finished(calls[k], "populated", First(inactive))
           ELSE /\ peers' = peers
                /\ lastCall' = Finished(calls[k], "dropped", 0)
    /\ calls' = Removed(calls, k)
    /\ UNCHANGED <<instance, managerVars, kernel, node_id, clock,
                   bootEmpty, nodePc, recvCb, framesReceived,
                   lastFrame, lastBeacon, arrivalOrder>>

\* the instants the check tells apart, in beacon intervals since boot
MaxClock == 5
\* the value at which the 4-byte unsigned timestamp field wraps: 2^32 us, i.e.
\* 2^32 / (1000 * BEACON_INTERVAL_MS) = 858 beacon intervals, scaled to 4
TimestampWrap == 4
\* what interpreter->output(0)->data.f holds after an Invoke() that succeeded
ModelOutput == <<5>>
\* the fields of a packet that was not sent
NotSent == <<>>

\* beacon.timestamp = esp_timer_get_time(): the int64_t clock value converted to
\* the uint32_t field
Truncated(time) == time % TimestampWrap

\* mutant of sendBeacon: the packet is broadcast whatever Invoke() returned
sendBeacon_AlwaysSends ==
    /\ instance = "SwarmIntelligenceNode"
    /\ nodePc = "run"
    /\ \E invoked \in BOOLEAN :
         lastBeacon' = [invoke |-> TRUE, invoked |-> invoked, requestId |-> NoId,
                        broadcast |-> TRUE, sender_id |-> node_id,
                        capabilities |-> ModelOutput,
                        timestamp |-> Truncated(clock)]
    /\ nodePc' = "delay"
    /\ UNCHANGED <<instance, managerVars, kernel, node_id, clock,
                   peers, bootEmpty, recvCb, calls,
                   framesReceived, lastFrame, lastCall, arrivalOrder>>

\* run(): the call of sendBeacon.  sendBeacon copies node_id into the packet,
\* fills its capabilities by calling interpreter->Invoke() on the node's own
\* interpreter (it submits nothing to a ModelRuntime: the class holds none),
\* stamps it with the clock and broadcasts it.  A failed Invoke returns before
\* esp_now_send.  run() is entered whether or not the constructor's
\* initializeTFLiteModel succeeded
sendBeacon ==
    /\ instance = "SwarmIntelligenceNode"
    /\ nodePc = "run"
    /\ \E invoked \in BOOLEAN :
         lastBeacon' = [invoke |-> TRUE, invoked |-> invoked, requestId |-> NoId,
                        broadcast |-> invoked, sender_id |-> node_id,
                        capabilities |-> IF invoked THEN ModelOutput ELSE NotSent,
                        timestamp |-> IF invoked THEN Truncated(clock) ELSE NotSent]
    /\ nodePc' = "delay"
    /\ UNCHANGED <<instance, managerVars, kernel, node_id, clock,
                   peers, bootEmpty, recvCb, calls,
                   framesReceived, lastFrame, lastCall, arrivalOrder>>

\* run(): vTaskDelay(pdMS_TO_TICKS(BEACON_INTERVAL_MS)), after which the loop
\* calls sendBeacon again.  The clock has advanced by the interval; past
\* MaxClock the check no longer tells instants apart
vTaskDelay ==
    /\ instance = "SwarmIntelligenceNode"
    /\ nodePc = "delay"
    /\ clock' = IF clock < MaxClock THEN clock + 1 ELSE clock
    /\ nodePc' = "run"
    /\ UNCHANGED <<instance, managerVars, kernel, node_id, peers, bootEmpty, recvCb, calls,
                   framesReceived, lastFrame, lastCall, lastBeacon, arrivalOrder>>

\* the node when app_main is about to construct it
InitNode ==
    /\ instance = "SwarmIntelligenceNode"
    /\ requestQueue = <<>>
    /\ responseQueue = <<>>
    /\ mutex = "free"
    /\ taskPc = "none"
    /\ request = InitialRequest(instance)
    /\ response = InitialResponse(instance)
    /\ caller = [c \in Callers |-> Idle]
    /\ nextRequestId = 1
    /\ files = [f \in Filenames |-> NoFile]
    /\ io = [opened |-> FALSE, short |-> FALSE]
    /\ loadedModels = <<>>
    /\ context = <<>>
    /\ modelIt = End
    /\ heapArenas = {}
    /\ storage = {}
    /\ engine = NoEngineCall
    /\ handlersActive = 0
    /\ accepted = <<>>
    /\ produced = <<>>
    /\ lastWrite = [f \in Filenames |-> Unknown]
    /\ lastHandled = <<>>
    /\ loadedOnce = {}
    /\ health = [m \in ModelIds |-> "ok"]
    /\ node_id = NoMac
    /\ peers \in [Slots -> BootSlots]
    /\ bootEmpty = (\A i \in Slots : ~peers[i].is_active)
    /\ nodePc = "app_main"
    /\ clock = 0
    /\ recvCb = FALSE
    /\ calls = <<>>
    /\ framesReceived = 0
    /\ lastFrame = <<>>
    /\ lastCall = <<>>
    /\ lastBeacon = <<>>
    /\ pollTimedOut = FALSE
    /\ requestBudget = 0
    /\ arrivalOrder = <<>>
    /\ kernel = NoKernel

\* the receive path of the node
NodeNext ==
    \/ app_main
    \/ \E frame \in Frames : recv_cb(frame)
    \/ \E k \in 1..MaxFrames : processBeacon_Scan(k)
    \/ \E k \in 1..MaxFrames : processBeacon_Insert(k)

SpecNode == InitNode /\ [][NodeNext]_vars

\* the beacon loop of the node, which shares no variable with the receive path
BeaconNext ==
    \/ app_main
    \/ sendBeacon
    \/ vTaskDelay

SpecBeacon == InitNode /\ [][BeaconNext]_vars

\* the beacon task scheduled fairly
FairBeacon ==
    /\ SpecBeacon
    /\ WF_vars(sendBeacon)
    /\ WF_vars(vTaskDelay)

----------------------------------------------------------------------------
(* SystemKernel::init *)

ESP_OK == "ESP_OK"
ESP_FAIL == "ESP_FAIL"
ESP_ERR_NOT_FOUND == "ESP_ERR_NOT_FOUND"
ESP_ERR_NO_MEM == "ESP_ERR_NO_MEM"
ESP_ERR_NVS_NO_FREE_PAGES == "ESP_ERR_NVS_NO_FREE_PAGES"
ESP_ERR_NVS_NEW_VERSION_FOUND == "ESP_ERR_NVS_NEW_VERSION_FOUND"
pdPASS == "pdPASS"
errCOULD_NOT_ALLOCATE_REQUIRED_MEMORY == "errCOULD_NOT_ALLOCATE_REQUIRED_MEMORY"

\* a call init has not made
NotCalled == "not called"

\* what the calls of init can return
NvsResults == {ESP_OK, ESP_ERR_NVS_NO_FREE_PAGES, ESP_ERR_NVS_NEW_VERSION_FOUND,
               ESP_ERR_NOT_FOUND}
EspResults == {ESP_OK, ESP_FAIL}
MountResults == {ESP_OK, ESP_FAIL, ESP_ERR_NOT_FOUND, ESP_ERR_NO_MEM}
MkdirResults == {0, -1}
TaskCreateResults == {pdPASS, errCOULD_NOT_ALLOCATE_REQUIRED_MEMORY}

\* ESP_ERROR_CHECK(ret): the next statement, or abort()
ESP_ERROR_CHECK(ret, next) == IF ret = ESP_OK THEN next ELSE "aborted"

\* init has not returned; <<b>> is init having returned b
NotReturned == <<>>

\* the kernel when init is entered: nothing called, no task handle stored
EnteredKernel ==
    [pc |-> "nvs_flash_init", nvs |-> <<>>, erase |-> NotCalled,
     eventLoop |-> NotCalled, spiffs |-> NotCalled, info |-> NotCalled,
     bus |-> NotCalled, sd |-> NotCalled, dirs |-> <<>>, created |-> <<>>,
     taskHandles |-> <<>>, result |-> NotReturned]

InitKernel ==
    /\ instance = "SystemKernel"
    /\ requestQueue = <<>>
    /\ responseQueue = <<>>
    /\ mutex = "free"
    /\ taskPc = "none"
    /\ request = InitialRequest(instance)
    /\ response = InitialResponse(instance)
    /\ caller = [c \in Callers |-> Idle]
    /\ nextRequestId = 1
    /\ files = [f \in Filenames |-> NoFile]
    /\ io = [opened |-> FALSE, short |-> FALSE]
    /\ loadedModels = <<>>
    /\ context = <<>>
    /\ modelIt = End
    /\ heapArenas = {}
    /\ storage = {}
    /\ engine = NoEngineCall
    /\ handlersActive = 0
    /\ accepted = <<>>
    /\ produced = <<>>
    /\ lastWrite = [f \in Filenames |-> Unknown]
    /\ lastHandled = <<>>
    /\ loadedOnce = {}
    /\ health = [m \in ModelIds |-> "ok"]
    /\ node_id = NoMac
    /\ peers = <<>>
    /\ bootEmpty = TRUE
    /\ nodePc = "none"
    /\ clock = 0
    /\ recvCb = FALSE
    /\ calls = <<>>
    /\ framesReceived = 0
    /\ lastFrame = <<>>
    /\ lastCall = <<>>
    /\ lastBeacon = <<>>
    /\ pollTimedOut = FALSE
    /\ requestBudget = 0
    /\ arrivalOrder = <<>>
    /\ kernel = EnteredKernel

\* esp_err_t ret = nvs_flash_init(); on one of the two recoverable results the
\* flash is erased next, otherwise ESP_ERROR_CHECK(ret)
init_nvs_flash_init ==
    /\ instance = "SystemKernel"
    /\ kernel.pc = "nvs_flash_init"
    /\ \E ret \in NvsResults :
         kernel' = [kernel EXCEPT
            !.nvs = <<ret>>,
            !.pc = IF ret \in {ESP_ERR_NVS_NO_FREE_PAGES,
                               ESP_ERR_NVS_NEW_VERSION_FOUND}
                   THEN "nvs_flash_erase"
                   ELSE ESP_ERROR_CHECK(ret, "esp_event_loop_create_default")]
    /\ UNCHANGED <<instance, managerVars, nodeVars>>

\* ESP_ERROR_CHECK(nvs_flash_erase()); ret = nvs_flash_init();
\* ESP_ERROR_CHECK(ret)
init_nvs_flash_erase ==
    /\ instance = "SystemKernel"
    /\ kernel.pc = "nvs_flash_erase"
    /\ \E erased \in EspResults, ret \in NvsResults :
         kernel' = IF erased # ESP_OK
                   THEN [kernel EXCEPT !.erase = erased, !.pc = "aborted"]
                   ELSE [kernel EXCEPT
                            !.erase = erased,
                            !.nvs = Append(@, ret),
                            !.pc = ESP_ERROR_CHECK(ret,
                                        "esp_event_loop_create_default")]
    /\ UNCHANGED <<instance, managerVars, nodeVars>>

\* ESP_ERROR_CHECK(esp_event_loop_create_default())
init_esp_event_loop_create_default ==
    /\ instance = "SystemKernel"
    /\ kernel.pc = "esp_event_loop_create_default"
    /\ \E ret \in EspResults :
         kernel' = [kernel EXCEPT !.eventLoop = ret,
                                  !.pc = ESP_ERROR_CHECK(ret, "initSPIFFS")]
    /\ UNCHANGED <<instance, managerVars, nodeVars>>

\* what initSPIFFS returns when esp_vfs_spiffs_register returned ret and
\* esp_spiffs_info, called only after a successful register, returned info
initSPIFFS_Returns(ret, info) ==
    IF ret # ESP_OK THEN FALSE
    ELSE IF info # ESP_OK THEN FALSE
    ELSE TRUE

\* if (!initSPIFFS()) return false;
initSPIFFS ==
    /\ instance = "SystemKernel"
    /\ kernel.pc = "initSPIFFS"
    /\ \E ret \in MountResults, info \in EspResults :
         kernel' = [kernel EXCEPT
            !.spiffs = ret,
            !.info = IF ret = ESP_OK THEN info ELSE NotCalled,
            !.result = IF initSPIFFS_Returns(ret, info) THEN @ ELSE <<FALSE>>,
            !.pc = IF initSPIFFS_Returns(ret, info) THEN "initSDCard"
                                                   ELSE "returned"]
    /\ UNCHANGED <<instance, managerVars, nodeVars>>

\* initSDCard with init going on to the task scheduler whatever the mount
\* returned
initSDCard_IgnoresMount ==
    /\ instance = "SystemKernel"
    /\ kernel.pc = "initSDCard"
    /\ \E bus \in EspResults, ret \in MountResults :
         kernel' = [kernel EXCEPT !.bus = bus, !.sd = ret,
                                  !.pc = "initTaskScheduler"]
    /\ UNCHANGED <<instance, managerVars, nodeVars>>

\* if (!initSDCard()) return false; the result of spi_bus_initialize and of
\* the two mkdir calls is not looked at
initSDCard ==
    /\ instance = "SystemKernel"
    /\ kernel.pc = "initSDCard"
    /\ \E bus \in EspResults, ret \in MountResults,
          models \in MkdirResults, data \in MkdirResults :
         kernel' = IF ret # ESP_OK
                   THEN [kernel EXCEPT !.bus = bus, !.sd = ret,
                                       !.result = <<FALSE>>, !.pc = "returned"]
                   ELSE [kernel EXCEPT !.bus = bus, !.sd = ret,
                                       !.dirs = <<models, data>>,
                                       !.pc = "initTaskScheduler"]
    /\ UNCHANGED <<instance, managerVars, nodeVars>>

\* createTask: the handle is stored when xTaskCreate returned pdPASS
createTask(handles, name, result) ==
    IF result = pdPASS THEN Append(handles, name) ELSE handles

\* initTaskScheduler(); return true;
initTaskScheduler ==
    /\ instance = "SystemKernel"
    /\ kernel.pc = "initTaskScheduler"
    /\ \E monitor \in TaskCreateResults, memory \in TaskCreateResults :
         kernel' = [kernel EXCEPT
            !.created = <<"SysMonitor", "MemManager">>,
            !.taskHandles = createTask(createTask(@, "SysMonitor", monitor),
                                       "MemManager", memory),
            !.result = <<TRUE>>,
            !.pc = "returned"]
    /\ UNCHANGED <<instance, managerVars, nodeVars>>

KernelNext ==
    \/ init_nvs_flash_init
    \/ init_nvs_flash_erase
    \/ init_esp_event_loop_create_default
    \/ initSPIFFS
    \/ initSDCard
    \/ initTaskScheduler

SpecKernel == InitKernel /\ [][KernelNext]_vars

----------------------------------------------------------------------------
(* Properties *)

\* how often correlation id k occurs in a sequence of ids
Count(seq, k) == Cardinality({i \in DOMAIN seq : seq[i] = k})

\* every request accepted so far has exactly one response enqueued
AllAnswered == \A i \in DOMAIN accepted : Count(produced, accepted[i]) = 1

\* C1: every request a submit call got accepted with correlation id k is
\* eventually answered by exactly one response with requestId k (from any moment
\* on, a moment comes when each request accepted up to then has exactly one
\* response), and the worker never enqueues a response whose requestId no
\* accepted request carried, nor a second response for one.
C1_ResponseCorrelation ==
    /\ []<>AllAnswered
    /\ [](\A i \in DOMAIN produced :
            /\ Count(accepted, produced[i]) = 1
            /\ Count(produced, produced[i]) = 1)

\* C1 witness: all requests of a behaviour were accepted, answered once each and
\* polled.
C1_Witness ==
    /\ Len(accepted) = MaxRequests
    /\ \A k \in 1..MaxRequests : Count(produced, k) = 1
    /\ responseQueue = <<>>

\* C2: responses enter the response queue in the order their requests entered the
\* request queue, whichever callers submitted them.
C2_SubmissionOrder ==
    /\ Len(produced) <= Len(accepted)
    /\ \A i \in DOMAIN produced : produced[i] = accepted[i]

\* C2 witness: two callers' requests were queued against the order of their
\* calls, and answered in the order they were queued.
C2_Witness ==
    /\ Len(produced) >= 2
    /\ accepted[1] > accepted[2]
    /\ produced[1] = accepted[1]
    /\ produced[2] = accepted[2]

\* C3: the count of model handler bodies entered and not yet left never exceeds 1.
C3_Serialization ==
    instance = "ModelRuntime" => handlersActive <= 1

\* C3 witness: a RUN handler is executing while a RUN for another model id,
\* submitted concurrently, waits in the request queue.
C3_Witness ==
    /\ instance = "ModelRuntime"
    /\ taskPc = "handler"
    /\ handlersActive = 1
    /\ request.operation = "RUN"
    /\ \E i \in DOMAIN requestQueue :
         /\ requestQueue[i].operation = "RUN"
         /\ requestQueue[i].modelId # request.modelId

\* C4: the worker holds the mutex exactly from its take to its give: the mutex is
\* free whenever the worker waits on the request queue or on the response queue,
\* after a failed handler as after a successful one.
C4_MutexOnlyDuringDispatch ==
    /\ taskPc \in {"receive", "take", "send"} => mutex = "free"
    /\ taskPc \in {"dispatch", "handler", "give"} => mutex # "free"

\* C4 witness: the worker is blocked sending a failure response to a full
\* response queue.
C4_Witness ==
    /\ taskPc = "send"
    /\ ~response.success
    /\ Len(responseQueue) = queueSize
    /\ mutex = "free"

\* C5: neither queue ever holds more than its capacity, and while the request
\* queue is full a submit call stays blocked with its request and the queue changes
\* only by the worker taking its head.
C5_BoundedQueues ==
    /\ [](Len(requestQueue) <= queueSize /\ Len(responseQueue) <= queueSize)
    /\ [][Len(requestQueue) = queueSize =>
            /\ requestQueue' = requestQueue \/ requestQueue' = Tail(requestQueue)
            /\ \A c \in Callers :
                 caller[c].pc = "xQueueSend" => caller'[c] = caller[c]]_vars

\* C5 witness: a caller is blocked in xQueueSend on a full request queue.
C5_Witness ==
    /\ Len(requestQueue) = queueSize
    /\ \E c \in Callers : caller[c].pc = "xQueueSend"

\* the READ whose handler just returned follows a WRITE of the same file that
\* reported success, with no WRITE of that file in between
ReadAfterWrite ==
    /\ instance = "FileManager"
    /\ taskPc = "give"
    /\ request.operation = "READ"
    /\ lastWrite[request.filename] # Unknown

\* C6 as claimed: after a WRITE(f, b) that reported success, the next READ(f)
\* (no WRITE of f in between) always yields a successful response carrying
\* exactly b with length |b|.
C6_RoundTripAlways ==
    ReadAfterWrite =>
        /\ response.success
        /\ response.data = lastWrite[request.filename]
        /\ response.length = Len(Bytes(lastWrite[request.filename]))

\* C7 as claimed: a RUN(id) handled when no LOAD(id) has succeeded yields success=false,
\* "Model not loaded", no output payload, makes no interpreter call and leaves the
\* model table as it was.
C7_RunBeforeLoad ==
    [][(/\ instance = "ModelRuntime"
        /\ taskPc \in {"dispatch", "handler"}
        /\ request.operation = "RUN"
        /\ request.modelId \notin loadedOnce)
       => /\ loadedModels' = loadedModels
          /\ (taskPc = "handler" /\ taskPc' = "give") =>
                /\ response' = [success |-> FALSE, message |-> "Model not loaded",
                                outputData |-> NULL, outputLength |-> 0,
                                requestId |-> request.requestId,
                                state |-> "UNLOADED"]
                /\ engine' = NoEngineCall]_vars

\* the lifecycle state of a model id: that of its context in the table, else that
\* of the context handleModelLoad is building for it, else UNLOADED
Lifecycle(m) ==
    IF Found(loadedModels, m) THEN loadedModels[m].state
    ELSE IF context # <<>> /\ request.modelId = m THEN context[1].state
    ELSE "UNLOADED"

\* C8 as claimed: of two consecutive LOAD(id) requests both report success, and
\* the second leaves the one context of id and the allocated arenas as they were.
C8_LoadIdempotent ==
    [][(/\ instance = "ModelRuntime"
        /\ taskPc = "handler" /\ taskPc' = "give"
        /\ request.operation = "LOAD"
        /\ lastHandled # <<>>
        /\ lastHandled[1].operation = "LOAD"
        /\ lastHandled[1].modelId = request.modelId)
       => /\ lastHandled[1].success
          /\ response'.success
          /\ Found(loadedModels', request.modelId)
          /\ loadedModels' = loadedModels
          /\ heapArenas' = heapArenas]_vars

\* C9 as claimed: once a RUN(id) failed with "Inference failed" or a LOAD(id)
\* failed at tensor allocation, id is in state ERROR, and every RUN(id) handled
\* before an UNLOAD(id) and a new successful LOAD(id) fails without a call of
\* Invoke.
C9_ErrorTerminal ==
    [][instance = "ModelRuntime" =>
         /\ \A m \in ModelIds :
              (health'[m] = "error" /\ taskPc' \in {"give", "send", "receive", "take"})
                 => Lifecycle(m)' = "ERROR"
         /\ (/\ taskPc = "handler" /\ taskPc' = "give"
             /\ request.operation = "RUN"
             /\ health[request.modelId] # "ok")
            => (~response'.success /\ ~engine'.invoke)]_vars

\* the edges the lifecycle state of an id may take
LifecycleEdges ==
    {<<"UNLOADED", "LOADING">>, <<"LOADING", "READY">>,
     <<"READY", "RUNNING">>, <<"RUNNING", "READY">>}
    \cup {<<st, "ERROR">> : st \in {"UNLOADED", "LOADING", "READY", "RUNNING"}}

\* C10 as claimed: the lifecycle state of an id changes only along
\* Unloaded->Loading, Loading->Ready, Ready->Running, Running->Ready, any->Error
\* and, by UNLOAD, ->Unloaded; a RUN executes only on a READY context and a
\* successful RUN leaves the context READY.
C10_LifecycleEdges ==
    [][instance = "ModelRuntime" =>
         /\ \A m \in ModelIds :
              Lifecycle(m)' # Lifecycle(m) =>
                 \/ <<Lifecycle(m), Lifecycle(m)'>> \in LifecycleEdges
                 \/ /\ Lifecycle(m)' = "UNLOADED"
                    /\ taskPc = "handler"
                    /\ request.operation = "UNLOAD"
                    /\ request.modelId = m
         /\ (/\ taskPc = "dispatch" /\ taskPc' = "handler"
             /\ request.operation = "RUN"
             /\ Found(loadedModels, request.modelId))
            => loadedModels[request.modelId].state = "READY"
         /\ (/\ taskPc = "handler" /\ taskPc' = "give"
             /\ request.operation = "RUN"
             /\ response'.success)
            => Lifecycle(request.modelId)' = "READY"]_vars

\* C11 as claimed: a RUN whose lookup finds a context and whose input length
\* differs from the input tensor's size fails with "input size mismatch"; no byte
\* is copied into the input tensor and Invoke is not called.
C11_InputSizeValidated ==
    [][(/\ instance = "ModelRuntime"
        /\ taskPc = "handler" /\ taskPc' = "give"
        /\ request.operation = "RUN"
        /\ modelIt # End
        /\ request.inputLength # InputTensorBytes)
       => /\ ~response'.success
          /\ response'.message = "input size mismatch"
          /\ engine'.copied = 0
          /\ ~engine'.invoke]_vars

\* C12 as claimed: once the handler of an UNLOAD(id) returned, the table holds no
\* context for id, the arena that context held is released, the response carries
\* the request's requestId, and a RUN(id) handled before any further LOAD(id)
\* succeeds fails with "Model not loaded".
C12_UnloadReleases ==
    [][(instance = "ModelRuntime" /\ taskPc = "handler" /\ taskPc' = "give") =>
         /\ request.operation = "UNLOAD" =>
               /\ ~Found(loadedModels', request.modelId)
               /\ Found(loadedModels, request.modelId) =>
                     loadedModels[request.modelId].tensorArena[1] \notin heapArenas'
               /\ response'.requestId = request.requestId
         /\ (/\ request.operation = "RUN"
             /\ lastHandled # <<>>
             /\ lastHandled[1].operation = "UNLOAD"
             /\ lastHandled[1].modelId = request.modelId)
            => (~response'.success /\ response'.message = "Model not loaded")]_vars

\* a failed response that carries no payload
NoPayload(r) ==
    ~r.success =>
        IF instance = "FileManager"
        THEN r.data = NULL /\ r.length = 0
        ELSE r.outputData = NULL /\ r.outputLength = 0

\* C13 as claimed: every response the worker built or enqueued with success=false
\* has a null data/outputData pointer and length 0, the short read included.
C13_FailureHasNoPayload ==
    /\ taskPc \in {"give", "send"} => NoPayload(response)
    /\ \A i \in DOMAIN responseQueue : NoPayload(responseQueue[i])

\* how many slots of a table are active
ActiveCount(table) == Cardinality({i \in DOMAIN table : table[i].is_active})

\* C14: when processBeacon handles a beacon whose sender an earlier beacon
\* already recorded (an earlier beacon of that sender was processed and an active
\* slot holds the sender's identity), the call rewrites last_seen and capabilities
\* of one active slot that holds the identity, changes nothing else in the table,
\* and leaves the number of active slots as it was.
C14_UpsertIdempotent ==
    [][(/\ instance = "SwarmIntelligenceNode"
        /\ Len(calls) = 1
        /\ calls' = <<>>
        /\ calls[1].repeat
        /\ \E i \in Slots : /\ peers[i].is_active
                            /\ peers[i].mac_address = calls[1].beacon.sender_id)
       => /\ ActiveCount(peers') = ActiveCount(peers)
          /\ \E i \in Slots :
                /\ peers[i].is_active
                /\ peers[i].mac_address = calls[1].beacon.sender_id
                /\ peers' = [peers EXCEPT
                                ![i].last_seen = calls[1].beacon.timestamp,
                                ![i].capabilities = calls[1].beacon.capabilities]]_vars

\* a second beacon of a recorded sender has been processed: it carried other
\* capabilities than the first and the sender's one slot now holds them
C14_Witness ==
    /\ instance = "SwarmIntelligenceNode"
    /\ bootEmpty
    /\ calls = <<>>
    /\ lastCall # <<>>
    /\ lastCall.repeat
    /\ lastCall.outcome = "updated"
    /\ lastCall.beacon.timestamp = 20
    /\ ActiveCount(peers) = 1
    /\ peers[lastCall.slot].mac_address = lastCall.beacon.sender_id
    /\ peers[lastCall.slot].capabilities = lastCall.beacon.capabilities

\* C15: the table never holds more than MAX_PEERS active slots, and while every
\* slot is active the processing of a beacon whose sender no slot holds leaves
\* the whole table (mac_address, rssi, last_seen, is_active, capabilities of
\* every slot) as it was and ends with the beacon dropped.
C15_DirectoryCapacity ==
    /\ [](instance = "SwarmIntelligenceNode"
            => /\ DOMAIN peers = Slots
               /\ ActiveCount(peers) <= MAX_PEERS)
    /\ [][(/\ instance = "SwarmIntelligenceNode"
           /\ Len(calls) = 1
           /\ calls' # calls
           /\ \A i \in Slots : /\ peers[i].is_active
                               /\ peers[i].mac_address # calls[1].beacon.sender_id)
          => /\ peers' = peers
             /\ calls' = <<>> => lastCall'.outcome = "dropped"]_vars

\* beacons filled a table that started without active slots, and the beacon of
\* one more sender was dropped
C15_Witness ==
    /\ instance = "SwarmIntelligenceNode"
    /\ bootEmpty
    /\ calls = <<>>
    /\ lastCall # <<>>
    /\ lastCall.outcome = "dropped"
    /\ ActiveCount(peers) = MAX_PEERS
    /\ \A i \in Slots : peers[i].mac_address # lastCall.beacon.sender_id

\* the identities the active slots of a table hold
ActiveIds(table) == {table[i].mac_address : i \in {j \in DOMAIN table : table[j].is_active}}

\* the smaller of two numbers
Min(a, b) == IF a <= b THEN a ELSE b

\* C16: when the table started without an active slot, then whenever every
\* received beacon has been processed the identities of the active slots are
\* exactly the first min(n, MAX_PEERS) of the n distinct sender ids in the order
\* of their first arrival, each in one active slot.
C16_FirstComeFirstKept ==
    (/\ instance = "SwarmIntelligenceNode"
     /\ bootEmpty
     /\ calls = <<>>)
    => /\ ActiveIds(peers) =
              {arrivalOrder[k] : k \in 1..Min(Len(arrivalOrder), MAX_PEERS)}
       /\ ActiveCount(peers) = Min(Len(arrivalOrder), MAX_PEERS)

\* more distinct senders than slots were heard from an empty table: the first
\* MAX_PEERS are active and the one after them is in no slot
C16_Witness ==
    /\ instance = "SwarmIntelligenceNode"
    /\ bootEmpty
    /\ calls = <<>>
    /\ Len(arrivalOrder) = MAX_PEERS + 1
    /\ ActiveIds(peers) = {arrivalOrder[k] : k \in 1..MAX_PEERS}
    /\ \A i \in Slots : peers[i].mac_address # arrivalOrder[MAX_PEERS + 1]

\* C17 as claimed: in every reachable state of the node no two active slots of
\* peers hold the same identity.
C17_NoDuplicateActive ==
    instance = "SwarmIntelligenceNode"
    => \A i, j \in Slots :
          (i # j /\ peers[i].is_active /\ peers[j].is_active)
          => peers[i].mac_address # peers[j].mac_address

\* C18: when the receive callback is entered for a frame whose length is not
\* sizeof(BeaconPacket), processBeacon is not called and peers stays as it was;
\* when it is entered for a frame of exactly that length, processBeacon is
\* called with the BeaconPacket the frame holds.
C18_FrameSizeGuard ==
    [][(/\ instance = "SwarmIntelligenceNode"
        /\ framesReceived' = framesReceived + 1)
       => IF lastFrame'.len # BeaconPacketSize
          THEN /\ calls' = calls
               /\ lastCall' = lastCall
               /\ peers' = peers
          ELSE /\ Len(calls') = Len(calls) + 1
               /\ calls'[Len(calls')].beacon = lastFrame'.data
               /\ calls'[Len(calls')].pc = "scan"]_vars

\* the only frame received so far was a byte short: no call of processBeacon
\* has started or finished, and the sender it names is in no slot although a
\* slot is free
C18_Witness ==
    /\ instance = "SwarmIntelligenceNode"
    /\ framesReceived = 1
    /\ lastFrame.len = BeaconPacketSize - 1
    /\ calls = <<>>
    /\ lastCall = <<>>
    /\ \E i \in Slots : ~peers[i].is_active
    /\ \A i \in Slots : peers[i].mac_address # lastFrame.data.sender_id

\* C19 as claimed: a call of processBeacon whose beacon matches a slot leaves
\* that slot active with the signal strength of the received frame and the
\* capabilities and timestamp of the beacon; a call whose beacon matches no slot
\* while some slot is inactive leaves the lowest inactive slot active with the
\* beacon's identity, capabilities and timestamp.
C19_UpsertFields ==
    [][(/\ instance = "SwarmIntelligenceNode"
        /\ Len(calls) = 1
        /\ calls' = <<>>)
       => LET beacon == calls[1].beacon
              matching == {i \in Slots : peers[i].mac_address = beacon.sender_id}
              inactive == {i \in Slots : ~peers[i].is_active}
          IN  /\ matching # {}
                 => \E i \in matching :
                       /\ peers'[i].rssi = lastFrame.rssi
                       /\ peers'[i].capabilities = beacon.capabilities
                       /\ peers'[i].last_seen = beacon.timestamp
                       /\ peers'[i].is_active
              /\ (matching = {} /\ inactive # {})
                 => \E i \in inactive :
                       /\ \A j \in inactive : i <= j
                       /\ peers'[i].mac_address = beacon.sender_id
                       /\ peers'[i].capabilities = beacon.capabilities
                       /\ peers'[i].last_seen = beacon.timestamp
                       /\ peers'[i].is_active]_vars

C21_BeaconInferenceQueued ==
    (instance = "SwarmIntelligenceNode" /\ lastBeacon # <<>> /\ lastBeacon.broadcast)
    => /\ ~lastBeacon.invoke
       /\ lastBeacon.requestId # NoId
       /\ \E i \in DOMAIN produced : produced[i] = lastBeacon.requestId

\* C23 as claimed: a node whose initializeTFLiteModel failed (the constructor
\* returned before initESPNOW, so no receive callback is registered) is never
\* inside run() and has made no call of sendBeacon.
C23_NoBeaconLoopAfterFailedInit ==
    (instance = "SwarmIntelligenceNode" /\ nodePc # "app_main" /\ ~recvCb)
    => /\ nodePc \notin {"run", "delay"}
       /\ lastBeacon = <<>>

\* every accepted request has been answered and every response taken
AllReceived == AllAnswered /\ responseQueue = <<>>

\* C22: a getResponse that times out while a request is outstanding (followed
\* here for the request submitted last, with earlier ones possibly outstanding
\* too) changes neither queue nor anything of the worker; the worker goes on to
\* answer every accepted request, each response queued carries the correlation
\* id of an accepted request, and later polls take them all.
C22_NoCancellation ==
    /\ [][(pollTimedOut' /\ ~pollTimedOut)
          => UNCHANGED <<requestQueue, responseQueue, mutex, taskPc, request, response,
                         accepted, produced, fileVars, modelVars>>]_vars
    /\ [](\A i \in DOMAIN responseQueue :
            \E j \in DOMAIN accepted : accepted[j] = responseQueue[i].requestId)
    /\ []<>(pollTimedOut => AllReceived)

\* a poll timed out while a request was outstanding, and by now every accepted
\* request, MaxRequests of them, has been answered and its response taken
C22_Witness ==
    /\ pollTimedOut
    /\ Len(accepted) = MaxRequests
    /\ AllReceived

\* a WRITE handler has just returned
WriteHandled ==
    /\ instance = "FileManager"
    /\ taskPc = "give"
    /\ request.operation = "WRITE"

\* C24 as claimed: a WRITE response has success=true exactly when the file was
\* opened and every requested byte was written, and after a successful WRITE(f, b)
\* (the second of two as well as the first) the content of f is exactly b.
C24_WriteFaithful ==
    WriteHandled
    => /\ response.success <=> (io.opened /\ ~io.short)
       /\ response.success => files[request.filename] = File(Bytes(request.data))

\* the requests the worker has still to read, each with the bytes its payload
\* pointer points at: those queued and the one the worker holds
InFlight ==
    {<<requestQueue[i].requestId, Payload(requestQueue[i])>> : i \in DOMAIN requestQueue}
    \cup (IF WorkerHolds THEN {<<request.requestId, Payload(request)>>} ELSE {})

\* C25 as claimed: from the moment a submit call has returned until the handler
\* of its request has returned, no step changes the bytes the request's payload
\* pointer points at: what the worker reads is what the caller's buffer held when
\* the request was queued.
C25_PayloadOwnership ==
    [][(instance \in {"FileManager", "ModelRuntime"})
       => \A p \in InFlight, q \in InFlight' : (p[1] = q[1]) => (p[2] = q[2])]_vars

\* C26 as claimed: the response the worker is about to enqueue carries the
\* correlation id of the request it dequeued in this iteration, whatever the
\* operation kind of that request.
C26_ResponseDescribesRequest ==
    (instance \in {"FileManager", "ModelRuntime"} /\ taskPc = "send")
        => response.requestId = request.requestId

\* the lifecycle state the model table records for an id: the state of its
\* context, UNLOADED when the table holds none
RecordedState(modelId) ==
    IF modelId \in DOMAIN loadedModels THEN loadedModels[modelId].state ELSE "UNLOADED"

\* C27 as claimed: when a LOAD or RUN handler has returned, the lifecycle state
\* in its response is the state the model table records for the request's model
\* id at that moment, on the success path and on every failure path.
C27_ResponseStateIsRecordedState ==
    (/\ instance = "ModelRuntime"
     /\ taskPc = "give"
     /\ request.operation \in {"LOAD", "RUN"})
        => response.state = RecordedState(request.modelId)

C29_ArenaPerContext ==
    (instance = "ModelRuntime" /\ taskPc = "give")
        => /\ heapArenas = {loadedModels[m].tensorArena[1] : m \in DOMAIN loadedModels}
           /\ Cardinality(heapArenas) = Cardinality(DOMAIN loadedModels)

\* C30 as claimed: in every state in which the model mutex is free, no context
\* of the model table is in state LOADING or RUNNING.
C30_NoTransientStateOutsideHandler ==
    (instance = "ModelRuntime" /\ mutex = "free")
        => \A m \in DOMAIN loadedModels :
               loadedModels[m].state \notin {"LOADING", "RUNNING"}

\* what the request queue, the worker task and the response queue hold together
HoldingCapacity == queueSize + 1 + queueSize

\* C31: the accepted requests whose responses have not been polled are never
\* more than the request queue's capacity, plus the response queue's, plus the
\* one the worker holds; and while they are that many, no submit call is
\* accepted: the next acceptance comes after a getResponse took a response.
C31_Backpressure ==
    /\ [](instance \in {"FileManager", "ModelRuntime"} => Outstanding <= HoldingCapacity)
    /\ [][(instance \in {"FileManager", "ModelRuntime"} /\ Outstanding = HoldingCapacity)
            => accepted' = accepted]_vars

\* the bound is reached while a further submit call is blocked in its xQueueSend
C31_Witness ==
    /\ instance \in {"FileManager", "ModelRuntime"}
    /\ Outstanding = HoldingCapacity
    /\ \E c \in Callers : caller[c].pc = "xQueueSend"

\* C32 as claimed: a caller task that has started a submit call gets it accepted,
\* and once it has submitted all its requests back to back and then polls, it
\* receives a response for every one of them.
C32_BackToBackCompletes ==
    /\ \A c \in Callers : (caller[c].pc = "xQueueSend") ~> (caller[c].pc = "idle")
    /\ (nextRequestId > MaxRequests) ~> (Len(accepted) = MaxRequests /\ AllReceived)

\* C33: with a caller that keeps at most one request outstanding, every submit
\* call that has started returns, and every accepted request's response is
\* polled: the caller blocks forever neither in its xQueueSend nor in its
\* getResponse.
C33_OneOutstandingNeverBlocks ==
    /\ [](instance \in {"FileManager", "ModelRuntime"} => Outstanding <= 1)
    /\ (caller["t1"].pc = "xQueueSend") ~> (caller["t1"].pc = "idle")
    /\ (Outstanding = 1) ~> (Outstanding = 0)

\* the caller has submitted all its requests one at a time and polled the
\* response of each
C33_Witness ==
    /\ instance \in {"FileManager", "ModelRuntime"}
    /\ Len(accepted) = MaxRequests
    /\ MaxRequests > 1
    /\ Outstanding = 0

\* C34: no step deactivates a slot or gives an active slot another identity: a
\* slot that is active stays active with the same mac_address, so the number of
\* active slots never decreases.
C34_NeverEvicted ==
    [][(instance = "SwarmIntelligenceNode")
       => /\ \A i \in Slots :
                peers[i].is_active
                   => /\ peers'[i].is_active
                      /\ peers'[i].mac_address = peers[i].mac_address
          /\ ActiveCount(peers') >= ActiveCount(peers)]_vars

\* a beacon of another sender was processed to its end while a slot was active
\* for a sender heard earlier
C34_Witness ==
    /\ instance = "SwarmIntelligenceNode"
    /\ lastCall # <<>>
    /\ lastCall.outcome \in {"populated", "dropped"}
    /\ \E i \in Slots :
          /\ peers[i].is_active
          /\ peers[i].mac_address # lastCall.beacon.sender_id
          /\ Heard(peers[i].mac_address)

\* C35: a call of processBeacon changes peers[] in at most one step, the one it
\* returns with, and in that step at most one slot differs from before, in any
\* of its fields; node_id is not changed by any step once the node was created.
C35_OneSlotPerBeacon ==
    [][(instance = "SwarmIntelligenceNode")
       => /\ Cardinality({i \in Slots : peers'[i] # peers[i]}) <= 1
          /\ (peers' # peers) => Len(calls') = Len(calls) - 1
          /\ (nodePc # "app_main") => node_id' = node_id]_vars

\* a call of processBeacon wrote a slot while another slot held a peer heard
\* earlier
C35_Witness ==
    /\ instance = "SwarmIntelligenceNode"
    /\ lastCall # <<>>
    /\ lastCall.outcome \in {"updated", "populated"}
    /\ \E i \in Slots :
          /\ i # lastCall.slot
          /\ peers[i].is_active
          /\ Heard(peers[i].mac_address)
          /\ peers[i].last_seen # 0

\* C36 as claimed: of two beacons the node broadcasts one after the other, the
\* later carries a timestamp that is not smaller than the earlier one's.
C36_TimestampMonotonic ==
    [][(/\ instance = "SwarmIntelligenceNode"
        /\ lastBeacon # <<>>
        /\ lastBeacon.broadcast
        /\ lastBeacon'.broadcast)
       => lastBeacon'.timestamp >= lastBeacon.timestamp]_vars

\* C37: once run() is entered the loop goes on for ever, every call of sendBeacon
\* being followed by a vTaskDelay and every vTaskDelay by the next call; only a
\* call of sendBeacon sends, and what it sends is one packet with this node's
\* identity and the output of the Invoke() of that call, or nothing when that
\* Invoke() failed.
C37_BeaconLoop ==
    /\ (nodePc = "run") ~> (nodePc = "delay")
    /\ (nodePc = "delay") ~> (nodePc = "run")
    /\ [][(instance = "SwarmIntelligenceNode")
           => /\ (lastBeacon' # lastBeacon) => (nodePc = "run" /\ nodePc' = "delay")
              /\ (nodePc = "delay") => nodePc' \in {"delay", "run"}
              /\ (nodePc = "run") => nodePc' \in {"run", "delay"}]_vars
    /\ []((instance = "SwarmIntelligenceNode" /\ lastBeacon # <<>>)
           => /\ lastBeacon.broadcast <=> lastBeacon.invoked
              /\ lastBeacon.broadcast
                    => /\ lastBeacon.sender_id = StationMac
                       /\ lastBeacon.capabilities = ModelOutput
              /\ (~lastBeacon.broadcast) => lastBeacon.capabilities = NotSent)

\* the loop is in a later iteration, after an iteration that broadcast
C37_Witness ==
    /\ instance = "SwarmIntelligenceNode"
    /\ nodePc = "run"
    /\ clock >= 2
    /\ lastBeacon # <<>>
    /\ lastBeacon.broadcast

\* C38 as claimed: in every state in which the beacon loop is running, node_id
\* holds the node's identity and the receive callback is registered, so that
\* peers' beacons reach processBeacon; no beacon is broadcast before that.
C38_BootstrapOrdering ==
    (instance = "SwarmIntelligenceNode")
        => /\ (nodePc \in {"run", "delay"}) => (node_id = StationMac /\ recvCb)
           /\ (lastBeacon # <<>> /\ lastBeacon.broadcast)
                 => (lastBeacon.sender_id = StationMac /\ recvCb)

\* a mount init called and that did not return ESP_OK
MountFailed(ret) == ret \notin {NotCalled, ESP_OK}

\* C39: SystemKernel::init returns true only if the SPIFFS mount and the SD-card
\* mount both succeeded; after a failed SPIFFS mount the SD-card mount is not
\* attempted; and after a failed mount of either, init has returned false and
\* has created neither the monitor nor the memory-manager task.
C39_InitRequiresBothMounts ==
    instance = "SystemKernel" =>
        /\ (kernel.result = <<TRUE>>) =>
               /\ kernel.pc = "returned"
               /\ kernel.spiffs = ESP_OK
               /\ kernel.sd = ESP_OK
        /\ MountFailed(kernel.spiffs) => kernel.sd = NotCalled
        /\ (MountFailed(kernel.spiffs) \/ MountFailed(kernel.sd)) =>
               /\ kernel.pc = "returned"
               /\ kernel.result = <<FALSE>>
               /\ kernel.created = <<>>
               /\ kernel.taskHandles = <<>>

\* init returned false after a successful SPIFFS mount and a failed SD-card
\* mount
C39_Witness ==
    /\ instance = "SystemKernel"
    /\ kernel.pc = "returned"
    /\ kernel.result = <<FALSE>>
    /\ kernel.spiffs = ESP_OK
    /\ kernel.info = ESP_OK
    /\ MountFailed(kernel.sd)
    /\ kernel.created = <<>>

====
